---- MODULE Spec2Model ----
(***************************************************************************)
(* CV-extraction reconciliation engine of the job tracker.                 *)
(*                                                                         *)
(*   ai_service.py  extract_cv_data_deep, _get_empty_profile_structure,    *)
(*                  _normalize_profile_structure                           *)
(*   app.py         _perform_cv_extraction, edit_profile, upload_cv        *)
(*                                                                         *)
(* Python values are tagged records.  A Python str is a sequence of text   *)
(* chunks: the characters { } [ ] " ' , : and each whitespace character    *)
(* are chunks of their own, every other chunk is a run of other            *)
(* characters.  A JSON document (a model response, json.dumps output, a    *)
(* JSON column of the profiles table) is such a str.                       *)
(***************************************************************************)
EXTENDS Integers, Sequences, FiniteSets, TLC

(***************************************************************************)
(* Python values                                                           *)
(***************************************************************************)
None == [t |-> "null"]
Str(s) == [t |-> "str", s |-> s]
Num(n) == [t |-> "num", n |-> n]
Bool(b) == [t |-> "bool", b |-> b]
List(items) == [t |-> "list", items |-> items]
Dict(f) == [t |-> "obj", f |-> f]

EmptyDict == Dict([k \in {} |-> None])

\* F(e) with e evaluated first and once, as Python evaluates the argument of a
\* call and the right-hand side of an assignment
Call(F(_), e) == CHOOSE r \in {F(x) : x \in {e}} : TRUE

\* dict.get(key): the value, or None when the key is absent
Get(d, key) == IF key \in DOMAIN d.f THEN d.f[key] ELSE None

\* dict.get(key, default)
GetOr(d, key, default) == IF key \in DOMAIN d.f THEN d.f[key] ELSE default

\* Python truthiness (bool(v)): None, "", 0, [] and {} are false
Truthy(v) ==
    CASE v.t = "null" -> FALSE
      [] v.t = "str" -> v.s # <<>>
      [] v.t = "num" -> v.n # 0
      [] v.t = "bool" -> v.b
      [] v.t = "list" -> v.items # <<>>
      [] v.t = "obj" -> DOMAIN v.f # {}

\* v or default
OrElse(v, default) == IF Truthy(v) THEN v ELSE default

(***************************************************************************)
(* Python str operations on chunk sequences                                *)
(***************************************************************************)
Whitespace == {" ", "\n"}

\* str.lstrip()
LStrip(s) ==
    LET kept == {i \in 1..Len(s) : s[i] \notin Whitespace}
    IN  IF kept = {} THEN <<>>
        ELSE SubSeq(s, CHOOSE i \in kept : \A j \in kept : i <= j, Len(s))

\* str.rstrip()
RStrip(s) ==
    LET kept == {i \in 1..Len(s) : s[i] \notin Whitespace}
    IN  IF kept = {} THEN <<>>
        ELSE SubSeq(s, 1, CHOOSE i \in kept : \A j \in kept : i >= j)

\* str.strip()
Strip(s) == RStrip(LStrip(s))

\* str.lower() of one chunk, for the chunks of the model that have capitals
LowerChunk(c) ==
    CASE c = "NULL" -> "null"
      [] c = "Null" -> "null"
      [] OTHER -> c

\* str.lower()
Lower(s) == [i \in 1..Len(s) |-> LowerChunk(s[i])]

RECURSIVE Join(_, _)
\* sep.join(parts): parts is a sequence of strs
Join(sep, parts) ==
    IF parts = <<>> THEN <<>>
    ELSE IF Len(parts) = 1 THEN parts[1]
    ELSE parts[1] \o sep \o Join(sep, Tail(parts))

\* Every dict key of the model, in the order the sources write them; a dict is
\* serialized with its keys in this order
KeyOrder ==
    << "identity", "name", "email", "phone", "location", "links",
       "professional_summary", "skills", "technical", "tools", "soft",
       "experience", "company", "role", "duration", "responsibilities",
       "education", "degree", "institution", "year", "specialization",
       "projects", "tech_stack", "impact", "achievements",
       "career_intent", "current_status", "target_roles", "industry", "extra",
       "match_score", "matched_skills", "missing_skills", "summary" >>

\* list(d.keys())
Keys(d) == SelectSeq(KeyOrder, LAMBDA k : k \in DOMAIN d.f)

RECURSIVE PyRepr(_)
\* repr(v)
PyRepr(v) ==
    CASE v.t = "null" -> << "None" >>
      [] v.t = "num" -> << ToString(v.n) >>
      [] v.t = "bool" -> IF v.b THEN << "True" >> ELSE << "False" >>
      [] v.t = "str" -> << "'" >> \o v.s \o << "'" >>
      [] v.t = "list" ->
            << "[" >>
            \o Join(<< ",", " " >>, [i \in 1..Len(v.items) |-> PyRepr(v.items[i])])
            \o << "]" >>
      [] v.t = "obj" ->
            << "{" >>
            \o Join(<< ",", " " >>,
                    [i \in 1..Len(Keys(v)) |->
                        << "'", Keys(v)[i], "'", ":", " " >> \o PyRepr(v.f[Keys(v)[i]])])
            \o << "}" >>

\* str(v)
PyStr(v) == IF v.t = "str" THEN v.s ELSE PyRepr(v)

(***************************************************************************)
(* ai_service.py: the canonical Profile and the normalizer                 *)
(***************************************************************************)
\* A faulty variant of _get_empty_profile_structure: the list sections start
\* as empty lists
_get_empty_profile_structure_lists ==
    Dict([ identity |->
               Dict([name |-> None, email |-> None, phone |-> None,
                     location |-> None, links |-> List(<<>>)]),
           professional_summary |-> None,
           skills |-> Dict([technical |-> List(<<>>), tools |-> List(<<>>),
                            soft |-> List(<<>>)]),
           experience |-> List(<<>>),
           education |-> List(<<>>),
           projects |-> List(<<>>),
           achievements |-> List(<<>>) ])

_get_empty_profile_structure ==
    Dict([ identity |->
               Dict([name |-> None, email |-> None, phone |-> None,
                     location |-> None, links |-> None]),
           professional_summary |-> None,
           skills |-> Dict([technical |-> None, tools |-> None, soft |-> None]),
           experience |-> None,
           education |-> None,
           projects |-> None,
           achievements |-> None ])

\* str(x).strip() if x is not None and x != "" else None
ScalarField(x) ==
    IF x # None /\ x # Str(<<>>) THEN Str(Strip(PyStr(x))) ELSE None

\* [str(s).strip() for s in xs if s]
StrippedTruthy(xs) ==
    LET kept == SelectSeq(xs, Truthy)
    IN  [i \in 1..Len(kept) |-> Str(Strip(PyStr(kept[i])))]

\* [str(s).strip() for s in x if s] if isinstance(x, list) and x is not None else None
StrListField(x) ==
    IF x.t = "list" THEN List(StrippedTruthy(x.items)) ELSE None

\* A faulty variant of NormIdentity: the keys of the input that the schema
\* does not have are carried over
NormIdentityInheriting(identity) ==
    Dict([ k \in DOMAIN identity.f \cup {"name", "email", "phone", "location", "links"} |->
               IF k = "links" THEN StrListField(Get(identity, k))
               ELSE ScalarField(Get(identity, k)) ])

\* Lines 276-284
NormIdentity(identity) ==
    Dict([ name |-> ScalarField(Get(identity, "name")),
           email |-> ScalarField(Get(identity, "email")),
           phone |-> ScalarField(Get(identity, "phone")),
           location |-> ScalarField(Get(identity, "location")),
           links |-> StrListField(Get(identity, "links")) ])

NormSkills(skills) ==
    Dict([ technical |-> StrListField(Get(skills, "technical")),
           tools |-> StrListField(Get(skills, "tools")),
           soft |-> StrListField(Get(skills, "soft")) ])

NormExperienceEntry(exp) ==
    Dict([ company |-> ScalarField(Get(exp, "company")),
           role |-> ScalarField(Get(exp, "role")),
           duration |-> ScalarField(Get(exp, "duration")),
           responsibilities |-> StrListField(Get(exp, "responsibilities")) ])

NormEducationEntry(edu) ==
    Dict([ degree |-> ScalarField(Get(edu, "degree")),
           institution |-> ScalarField(Get(edu, "institution")),
           year |-> ScalarField(Get(edu, "year")),
           specialization |-> ScalarField(Get(edu, "specialization")) ])

NormProjectEntry(proj) ==
    Dict([ name |-> ScalarField(Get(proj, "name")),
           tech_stack |-> ScalarField(Get(proj, "tech_stack")),
           impact |-> ScalarField(Get(proj, "impact")) ])

\* A faulty variant of DictEntries: an entry without any key is dropped too
DictEntriesNonEmpty(x) == SelectSeq(x.items, LAMBDA e : e.t = "obj" /\ Truthy(e))

\* [e for e in x if isinstance(e, dict)]
DictEntries(x) == SelectSeq(x.items, LAMBDA e : e.t = "obj")

\* Lines 300-313: the experience list, None unless a list
NormExperience(x) ==
    IF x.t = "list"
    THEN LET kept == DictEntries(x)
         IN  List([i \in 1..Len(kept) |-> NormExperienceEntry(kept[i])])
    ELSE None

\* Lines 316-328: the education list, None unless a list
NormEducation(x) ==
    IF x.t = "list"
    THEN LET kept == DictEntries(x)
         IN  List([i \in 1..Len(kept) |-> NormEducationEntry(kept[i])])
    ELSE None

\* Lines 331-342: the projects list, None unless a list
NormProjects(x) ==
    IF x.t = "list"
    THEN LET kept == DictEntries(x)
         IN  List([i \in 1..Len(kept) |-> NormProjectEntry(kept[i])])
    ELSE None

NormAchievements(x) ==
    IF x.t = "list"
    THEN IF SelectSeq(x.items, Truthy) # <<>>
         THEN List(StrippedTruthy(x.items))
         ELSE None
    ELSE IF x.t = "str"
    THEN IF Strip(x.s) # <<>> THEN List(<< Str(Strip(x.s)) >>) ELSE None
    ELSE None

\* A faulty variant of _normalize_profile_structure: a career_intent section
\* of the input is handed on with the seven sections
_normalize_profile_structure_with_intent(data) ==
    LET empty == _get_empty_profile_structure.f
        has(k) == k \in DOMAIN data.f
        section(k) ==
            CASE k = "identity" ->
                    IF has(k) /\ data.f[k].t = "obj" THEN NormIdentity(data.f[k])
                    ELSE empty[k]
              [] k = "professional_summary" ->
                    IF has(k) THEN ScalarField(data.f[k]) ELSE empty[k]
              [] k = "skills" ->
                    IF has(k) /\ data.f[k].t = "obj" THEN NormSkills(data.f[k])
                    ELSE empty[k]
              [] k = "experience" -> IF has(k) THEN NormExperience(data.f[k]) ELSE empty[k]
              [] k = "education" -> IF has(k) THEN NormEducation(data.f[k]) ELSE empty[k]
              [] k = "projects" -> IF has(k) THEN NormProjects(data.f[k]) ELSE empty[k]
              [] k = "achievements" ->
                    IF has(k) THEN NormAchievements(data.f[k]) ELSE empty[k]
              [] k = "career_intent" -> data.f[k]
    IN  Dict([ k \in DOMAIN empty \cup (DOMAIN data.f \cap {"career_intent"}) |->
                   section(k) ])

\* data is a dict
_normalize_profile_structure(data) ==
    LET empty == _get_empty_profile_structure.f
        has(k) == k \in DOMAIN data.f
    IN  Dict([ identity |->
                   IF has("identity") /\ data.f["identity"].t = "obj"
                   THEN NormIdentity(data.f["identity"])
                   ELSE empty["identity"],
               professional_summary |->
                   IF has("professional_summary")
                   THEN ScalarField(data.f["professional_summary"])
                   ELSE empty["professional_summary"],
               skills |->
                   IF has("skills") /\ data.f["skills"].t = "obj"
                   THEN NormSkills(data.f["skills"])
                   ELSE empty["skills"],
               experience |->
                   IF has("experience")
                   THEN NormExperience(data.f["experience"])
                   ELSE empty["experience"],
               education |->
                   IF has("education")
                   THEN NormEducation(data.f["education"])
                   ELSE empty["education"],
               projects |->
                   IF has("projects")
                   THEN NormProjects(data.f["projects"])
                   ELSE empty["projects"],
               achievements |->
                   IF has("achievements")
                   THEN NormAchievements(data.f["achievements"])
                   ELSE empty["achievements"] ])

(***************************************************************************)
(* app.py: the emptiness helpers local to _perform_cv_extraction           *)
(***************************************************************************)
\* A faulty variant of is_empty_json: a dict or a list is empty only when it
\* has no members
is_empty_json_shallow(val) ==
    CASE val.t = "null" -> TRUE
      [] val.t = "obj" -> DOMAIN val.f = {}
      [] val.t = "list" -> val.items = <<>>
      [] val.t = "str" ->
            LET s == Strip(val.s)
            IN  \/ s = <<>>
                \/ Lower(s) = << "null" >>
                \/ s = << "{", "}" >>
                \/ s = << "[", "]" >>
      [] OTHER -> FALSE

RECURSIVE is_empty_json(_)
\* Lines 2548-2566
is_empty_json(val) ==
    CASE val.t = "null" -> TRUE
      [] val.t = "obj" ->
            DOMAIN val.f = {} \/ \A k \in DOMAIN val.f : is_empty_json(val.f[k])
      [] val.t = "list" ->
            val.items = <<>>
            \/ \A i \in 1..Len(val.items) : is_empty_json(val.items[i])
      [] val.t = "str" ->
            LET s == Strip(val.s)
            IN  \/ s = <<>>
                \/ Lower(s) = << "null" >>
                \/ s = << "{", "}" >>
                \/ s = << "[", "]" >>
      [] OTHER -> FALSE

is_empty_text(val) ==
    CASE val.t = "null" -> TRUE
      [] val.t = "str" -> Strip(val.s) = <<>>
      [] OTHER -> FALSE

has_non_empty_data(data_dict, key) ==
    LET val == Get(data_dict, key)
    IN  CASE val.t = "null" -> FALSE
          [] val.t = "obj" ->
                DOMAIN val.f # {} /\ \E k \in DOMAIN val.f : ~is_empty_json(val.f[k])
          [] val.t = "list" ->
                val.items # <<>>
                /\ \E i \in 1..Len(val.items) : ~is_empty_json(val.items[i])
          [] val.t = "str" -> Strip(val.s) # <<>>
          [] OTHER -> FALSE

has_non_empty_identity_field(identity_dict, field) ==
    IF ~Truthy(identity_dict) \/ identity_dict.t # "obj" THEN FALSE
    ELSE LET val == Get(identity_dict, field)
         IN  CASE val.t = "null" -> FALSE
               [] val.t = "list" ->
                     val.items # <<>>
                     /\ \E i \in 1..Len(val.items) :
                            /\ Truthy(val.items[i])
                            /\ (val.items[i].t # "str" \/ Strip(val.items[i].s) # <<>>)
               [] val.t = "str" -> Strip(val.s) # <<>>
               [] OTHER -> FALSE

RECURSIVE is_valid_extracted_value(_)
is_valid_extracted_value(val) ==
    CASE val.t = "null" -> FALSE
      [] val.t = "str" -> Strip(val.s) # <<>>
      [] val.t = "obj" ->
            DOMAIN val.f # {}
            /\ \E k \in DOMAIN val.f : is_valid_extracted_value(val.f[k])
      [] val.t = "list" ->
            val.items # <<>>
            /\ \E i \in 1..Len(val.items) : is_valid_extracted_value(val.items[i])
      [] OTHER -> TRUE

(***************************************************************************)
(* json.dumps and json.loads on chunk sequences                            *)
(***************************************************************************)
\* Largest number a document of the model spells out
MaxNum == 5

\* The ends of the range match_jd_cv clamps a score to
MinScore == 0

MaxScore == 100

\* The integers a document of the model spells out
Numerals == (0..MaxNum) \cup {MinScore - 1, MaxScore, MaxScore + 1}

\* json.dumps writes a newline inside a string as the escape \n
EscapeChunk(c) == IF c = "\n" THEN "\\n" ELSE c

UnescapeChunk(c) == IF c = "\\n" THEN "\n" ELSE c

RECURSIVE Dumps(_)
\* json.dumps(v), with the default separators ", " and ": "
Dumps(v) ==
    CASE v.t = "null" -> << "null" >>
      [] v.t = "num" -> << ToString(v.n) >>
      [] v.t = "bool" -> IF v.b THEN << "true" >> ELSE << "false" >>
      [] v.t = "str" ->
            << "\"" >> \o [i \in 1..Len(v.s) |-> EscapeChunk(v.s[i])] \o << "\"" >>
      [] v.t = "list" ->
            << "[" >>
            \o Join(<< ",", " " >>, [i \in 1..Len(v.items) |-> Dumps(v.items[i])])
            \o << "]" >>
      [] v.t = "obj" ->
            << "{" >>
            \o Join(<< ",", " " >>,
                    [i \in 1..Len(Keys(v)) |->
                        << "\"", Keys(v)[i], "\"", ":", " " >> \o Dumps(v.f[Keys(v)[i]])])
            \o << "}" >>

\* A failed parse (json.JSONDecodeError)
ParseError == [ok |-> FALSE, v |-> None, pos |-> 0]

Parsed(v, pos) == [ok |-> TRUE, v |-> v, pos |-> pos]

\* index of the first chunk at or after i that is not JSON whitespace
SkipWs(t, i) ==
    LET rest == {j \in i..Len(t) : t[j] \notin Whitespace}
    IN  IF rest = {} THEN Len(t) + 1
        ELSE CHOOSE j \in rest : \A k \in rest : j <= k

\* index of the first chunk at or after i that is in set cs, or 0
IndexOf(t, i, cs) ==
    LET found == {j \in i..Len(t) : t[j] \in cs}
    IN  IF found = {} THEN 0
        ELSE CHOOSE j \in found : \A k \in found : j <= k

\* a string literal opening at t[i] = '"'; a raw control character inside it is
\* an error (strict mode)
ParseString(t, i) ==
    Call(LAMBDA j :
            IF j = 0 \/ \E k \in i + 1..j - 1 : t[k] = "\n" THEN ParseError
            ELSE Parsed(Str([k \in 1..j - 1 - i |-> UnescapeChunk(t[i + k])]), j + 1),
         IndexOf(t, i + 1, {"\""}))

\* d[key] = v on a dict under construction: a repeated key keeps the last value
SetKey(f, key, v) ==
    [k \in DOMAIN f \cup {key} |-> IF k = key THEN v ELSE f[k]]

RECURSIVE ParseValueAt(_, _)
RECURSIVE ParseElems(_, _, _)
RECURSIVE ParseMembers(_, _, _)

\* the elements of an array after "[" or ",": t[i..] starts an element; e is
\* the element parsed, with the index of what follows it
ParseElems(t, i, acc) ==
    Call(LAMBDA e :
            CASE e.ok /\ e.pos <= Len(t) /\ t[e.pos] = "," ->
                    Call(LAMBDA a : ParseElems(t, e.pos + 1, a), Append(acc, e.v))
              [] e.ok /\ e.pos <= Len(t) /\ t[e.pos] = "]" ->
                    Parsed(List(Append(acc, e.v)), e.pos + 1)
              [] OTHER -> ParseError,
         Call(LAMBDA v : IF v.ok THEN Parsed(v.v, SkipWs(t, v.pos)) ELSE ParseError,
              ParseValueAt(t, SkipWs(t, i))))

\* a member whose key has been parsed: the key, a ":" and the index of the
\* first chunk of the value
ParseMemberValue(t, key) ==
    IF ~key.ok THEN ParseError
    ELSE Call(LAMBDA c :
                 IF c <= Len(t) /\ t[c] = ":"
                 THEN Parsed(key.v, SkipWs(t, c + 1))
                 ELSE ParseError,
              SkipWs(t, key.pos))

\* the members of an object after "{" or ",": t[i..] starts a "key": value pair;
\* m is the pair parsed, with the index of what follows it.
\* Every key of the model's documents is a single chunk.
ParseMembers(t, i, acc) ==
    Call(LAMBDA m :
            CASE m.ok /\ m.pos <= Len(t) /\ t[m.pos] = "," ->
                    Call(LAMBDA a : ParseMembers(t, m.pos + 1, a), SetKey(acc, m.key, m.v))
              [] m.ok /\ m.pos <= Len(t) /\ t[m.pos] = "}" ->
                    Parsed(Dict(SetKey(acc, m.key, m.v)), m.pos + 1)
              [] OTHER -> ParseError,
         Call(LAMBDA member :
                 IF ~member.ok THEN [ok |-> FALSE, key |-> "", v |-> None, pos |-> 0]
                 ELSE Call(LAMBDA val :
                              IF ~val.ok THEN [ok |-> FALSE, key |-> "", v |-> None, pos |-> 0]
                              ELSE [ok |-> TRUE, key |-> member.v.s[1], v |-> val.v,
                                    pos |-> SkipWs(t, val.pos)],
                           ParseValueAt(t, member.pos)),
              Call(LAMBDA k0 :
                      Call(LAMBDA key : ParseMemberValue(t, key),
                           IF k0 <= Len(t) /\ t[k0] = "\"" THEN ParseString(t, k0)
                           ELSE ParseError),
                   SkipWs(t, i))))

\* one JSON value starting at t[j], j the index of its first chunk
ParseValueAt(t, j) ==
    CASE j > Len(t) -> ParseError
      [] j <= Len(t) /\ t[j] = "{" ->
            IF SkipWs(t, j + 1) <= Len(t) /\ t[SkipWs(t, j + 1)] = "}"
            THEN Parsed(EmptyDict, SkipWs(t, j + 1) + 1)
            ELSE ParseMembers(t, j + 1, [key \in {} |-> None])
      [] j <= Len(t) /\ t[j] = "[" ->
            IF SkipWs(t, j + 1) <= Len(t) /\ t[SkipWs(t, j + 1)] = "]"
            THEN Parsed(List(<<>>), SkipWs(t, j + 1) + 1)
            ELSE ParseElems(t, j + 1, <<>>)
      [] j <= Len(t) /\ t[j] = "\"" -> ParseString(t, j)
      [] j <= Len(t) /\ t[j] = "null" -> Parsed(None, j + 1)
      [] j <= Len(t) /\ t[j] = "true" -> Parsed(Bool(TRUE), j + 1)
      [] j <= Len(t) /\ t[j] = "false" -> Parsed(Bool(FALSE), j + 1)
      [] j <= Len(t) /\ (\E n \in Numerals : ToString(n) = t[j]) ->
            Parsed(Num(CHOOSE n \in Numerals : ToString(n) = t[j]), j + 1)
      [] OTHER -> ParseError

\* one JSON value starting at or after t[i]
ParseValue(t, i) == Call(LAMBDA j : ParseValueAt(t, j), SkipWs(t, i))

\* json.loads(t): one value, then nothing but whitespace
Loads(t) ==
    Call(LAMBDA text :
            Call(LAMBDA r : IF r.ok /\ SkipWs(text, r.pos) > Len(text) THEN r ELSE ParseError,
                 ParseValue(text, 1)),
         t)

(***************************************************************************)
(* ai_service.py: extract_cv_data_deep                                     *)
(***************************************************************************)
\* Fewer characters than this after trimming: nothing to extract from
MinCvTextLen == 50

RECURSIVE PyLen(_)
\* len(s) of a str: its number of characters
PyLen(s) == IF s = <<>> THEN 0 ELSE Len(Head(s)) + PyLen(Tail(s))

\* The model call raised (network error, blocked response, ...)
ModelRaises == [t |-> "raise"]

\* The chunk of three backquotes that opens and closes a markdown code block
\* (a TLA+ string cannot hold a backquote)
Fence == "<fence>"

\* Remove markdown code blocks: the text between the first fence marker and
\* the next one, minus a leading 'json'.  The elif branch of the source is
\* shadowed by the first test.
StripFence(response_text) ==
    IF response_text # <<>> /\ response_text[1] = Fence
    THEN LET close == IndexOf(response_text, 2, {Fence})
             inner == IF close = 0
                      THEN SubSeq(response_text, 2, Len(response_text))
                      ELSE SubSeq(response_text, 2, close - 1)
             untagged == IF inner # <<>> /\ inner[1] = "json" THEN Tail(inner) ELSE inner
         IN  Strip(untagged)
    ELSE response_text

RECURSIVE RegexMatchEnd(_, _)
\* The pattern of line 191 (an opening brace, then runs of non-brace characters
\* and one-level brace groups, then a closing brace) with the opening brace
\* consumed and the scan resuming at t[j]: the index of the closing brace of
\* the match, or 0.
\* The next brace either closes the match or opens a group that must close
\* before any other brace.
RegexMatchEnd(t, j) ==
    Call(LAMBDA m :
            IF m = 0 THEN 0
            ELSE IF t[m] = "}" THEN m
            ELSE Call(LAMBDA c : IF c = 0 \/ t[c] = "{" THEN 0
                                 ELSE RegexMatchEnd(t, c + 1),
                      IndexOf(t, m + 1, {"{", "}"})),
         IndexOf(t, j, {"{", "}"}))

RECURSIVE RegexSearch(_, _)
\* re.search of that pattern in t from index i: the leftmost match, or None
RegexSearch(t, i) ==
    Call(LAMBDA open :
            IF open = 0 THEN None
            ELSE Call(LAMBDA close : IF close # 0 THEN Str(SubSeq(t, open, close))
                                     ELSE RegexSearch(t, open + 1),
                      RegexMatchEnd(t, open + 1)),
         IndexOf(t, i, {"{"}))

\* Lines 183-199: the strict parse, then the parse of the regex match; a
\* ValueError when neither yields a value
ParseResponse(response_text) ==
    Call(LAMBDA strict :
            IF strict.ok THEN strict
            ELSE Call(LAMBDA json_match : IF json_match # None
                                          THEN Loads(json_match.s)
                                          ELSE ParseError,
                      RegexSearch(response_text, 1)),
         Loads(response_text))

\* A faulty variant of AfterModelCall: without the except clause of line 243 a
\* failure yields no Profile
AfterModelCallUncaught(response) ==
    IF response = ModelRaises THEN None
    ELSE Call(LAMBDA parsed :
                 IF ~parsed.ok THEN None
                 ELSE IF ~Truthy(parsed.v) \/ parsed.v.t # "obj"
                 THEN _get_empty_profile_structure
                 ELSE _normalize_profile_structure(parsed.v),
              Call(ParseResponse, Call(StripFence, Strip(response.s))))

\* A faulty variant of AfterModelCall: a list that holds an object is read as
\* that object
AfterModelCallUnwrapping(response) ==
    IF response = ModelRaises THEN _get_empty_profile_structure
    ELSE Call(LAMBDA parsed :
                 IF ~parsed.ok THEN _get_empty_profile_structure
                 ELSE IF parsed.v.t = "list" /\ parsed.v.items # <<>>
                         /\ parsed.v.items[1].t = "obj"
                 THEN _normalize_profile_structure(parsed.v.items[1])
                 ELSE IF ~Truthy(parsed.v) \/ parsed.v.t # "obj"
                 THEN _get_empty_profile_structure
                 ELSE _normalize_profile_structure(parsed.v),
              Call(ParseResponse, Call(StripFence, Strip(response.s))))

\* Lines 162-245: what extract_cv_data_deep returns once the model call has
\* raised or returned a text
AfterModelCall(response) ==
    IF response = ModelRaises THEN _get_empty_profile_structure
    ELSE Call(LAMBDA parsed :
                 IF ~parsed.ok THEN _get_empty_profile_structure
                 ELSE IF ~Truthy(parsed.v) \/ parsed.v.t # "obj"
                 THEN _get_empty_profile_structure
                 ELSE _normalize_profile_structure(parsed.v),
              Call(ParseResponse, Call(StripFence, Strip(response.s))))

(***************************************************************************)
(* ai_service.py: match_jd_cv                                              *)
(***************************************************************************)
RECURSIVE RegexFlatSearch(_, _)
\* re.search of the pattern of line 794 (an opening brace, non-brace
\* characters, a closing brace) in t from index i: the leftmost match, or None
RegexFlatSearch(t, i) ==
    Call(LAMBDA open :
            IF open = 0 THEN None
            ELSE Call(LAMBDA next : IF next # 0 /\ t[next] = "}"
                                    THEN Str(SubSeq(t, open, next))
                                    ELSE RegexFlatSearch(t, open + 1),
                      IndexOf(t, open + 1, {"{", "}"})),
         IndexOf(t, i, {"{"}))

\* int(x): [ok |-> FALSE] stands for TypeError and ValueError
PyInt(x) ==
    CASE x.t = "num" -> [ok |-> TRUE, n |-> x.n]
      [] x.t = "bool" -> [ok |-> TRUE, n |-> IF x.b THEN 1 ELSE 0]
      [] x.t = "str" ->
            LET c == Strip(x.s)
            IN  IF Len(c) = 1 /\ \E n \in Numerals : ToString(n) = c[1]
                THEN [ok |-> TRUE, n |-> CHOOSE n \in Numerals : ToString(n) = c[1]]
                ELSE [ok |-> FALSE, n |-> 0]
      [] OTHER -> [ok |-> FALSE, n |-> 0]

\* A faulty variant of ClampScore: the score is taken as it is
ClampScoreLoose(n) == n

\* Line 803: max(0, min(100, match_score))
ClampScore(n) ==
    LET least == IF MaxScore < n THEN MaxScore ELSE n
    IN  IF MinScore > least THEN MinScore ELSE least

\* x if isinstance(x, list) else [], then [str(s).strip() for s in x if s]
SkillsField(x) == IF x.t = "list" THEN List(StrippedTruthy(x.items)) ELSE List(<<>>)

\* Lines 704-710 and 821-827: the result without the AI and after an exception
MatchFailed(summary) ==
    Dict([ match_score |-> Num(0), matched_skills |-> List(<<>>),
           missing_skills |-> List(<<>>), summary |-> Str(summary) ])

\* match_jd_cv(job_description, about_me), given whether the AI is configured
\* and what the model call does.  Everything past line 704 is under the try
\* of line 712: the model call raising, a text that does not parse, a value
\* without .get and an int() that raises all end at line 821.
match_jd_cv(ai_available, response) ==
    IF ~ai_available THEN MatchFailed(<< "AI service not available for matching." >>)
    ELSE IF response = ModelRaises THEN MatchFailed(<< "Error analyzing match" >>)
    ELSE Call(LAMBDA match_data :
                 IF ~match_data.ok \/ match_data.v.t # "obj"
                 THEN MatchFailed(<< "Error analyzing match" >>)
                 ELSE Call(LAMBDA match_score :
                              IF ~match_score.ok
                              THEN MatchFailed(<< "Error analyzing match" >>)
                              ELSE Dict([ match_score |-> Num(ClampScore(match_score.n)),
                                          matched_skills |->
                                              SkillsField(GetOr(match_data.v, "matched_skills",
                                                                List(<<>>))),
                                          missing_skills |->
                                              SkillsField(GetOr(match_data.v, "missing_skills",
                                                                List(<<>>))),
                                          summary |->
                                              Str(Strip(PyStr(GetOr(match_data.v, "summary",
                                                                    Str(<<>>))))) ]),
                           PyInt(GetOr(match_data.v, "match_score", Num(0)))),
              Call(LAMBDA response_text :
                      Call(LAMBDA strict :
                              IF strict.ok THEN strict
                              ELSE Call(LAMBDA json_match : IF json_match # None
                                                            THEN Loads(json_match.s)
                                                            ELSE ParseError,
                                        RegexFlatSearch(response_text, 1)),
                           Loads(response_text)),
                   Call(StripFence, Strip(response.s))))

(***************************************************************************)
(* The requests of a run: uploaded files, model responses, submitted forms *)
(***************************************************************************)
\* Longest list of skills in a model response
MaxItems == 2

sJane == << "Jane", " ", "Doe" >>
sMail == << "jane@example.org" >>
sBackend == << "Experienced", " ", "backend", " ", "engineer." >>
sFullStack == << "Full-stack", " ", "generalist." >>
SkillNames == << "Go", "Postgres", "Rust", "Kotlin" >>

\* ["Go", "Postgres", ...] of length n
SkillList(n) == List([i \in 1..n |-> Str(<< SkillNames[i] >>)])

\* 49 and 50 characters
Text49 == << "Curriculum-vitae-of-a-backend-engineer-since-2015" >>
Text50 == << "Curriculum-vitae-of-a-backend-engineer-since-2015." >>

CvFile(ext, parser_available, text) ==
    [ext |-> ext, parser_available |-> parser_available, text |-> text]

CvFiles ==
    { CvFile(".pdf", TRUE, Text50),
      CvFile(".docx", TRUE, << " " >> \o Text49 \o << "\n" >>),
      CvFile(".pdf", TRUE, << "hi" >>),
      CvFile(".pdf", FALSE, Text50),
      CvFile(".doc", TRUE, Text50) }

\* A complete extraction with n technical skills
RawFull(n) ==
    Dict([ identity |->
               Dict([name |-> Str(sJane), email |-> Str(sMail), phone |-> None,
                     location |-> None, links |-> None]),
           professional_summary |-> Str(sFullStack),
           skills |-> Dict([technical |-> SkillList(n),
                            tools |-> List(<< Str(<< "Docker" >>) >>),
                            soft |-> None]),
           experience |->
               List(<< Dict([company |-> Str(<< "Acme" >>), role |-> Str(<< "Engineer" >>),
                             duration |-> None,
                             responsibilities |-> List(<< Str(<< "Built", " ", "APIs" >>) >>)]) >>),
           education |-> None,
           projects |-> None,
           achievements |-> List(<< Str(<< "Award" >>) >>) ])

\* The scenario of a fresh CV with skills and a summary, all else null
RawScenario ==
    Dict([ identity |-> None,
           professional_summary |-> Str(sFullStack),
           skills |-> Dict([technical |-> SkillList(2), tools |-> None, soft |-> None]),
           experience |-> None,
           education |-> None,
           projects |-> None,
           achievements |-> None ])

RawJane == Dict([identity |-> Dict([name |-> Str(sJane)])])

\* Present but blank everywhere
RawBlank ==
    Dict([ identity |-> Dict([name |-> Str(<< " ", " " >>), links |-> List(<<>>)]),
           professional_summary |-> Str(<< " " >>),
           skills |-> Dict([technical |-> List(<<>>),
                            tools |-> List(<< Str(<< " " >>) >>),
                            soft |-> None]),
           experience |-> List(<< EmptyDict >>),
           achievements |-> List(<< Str(<<>>) >>) ])

\* Wrong types, padding, unknown keys
RawNoisy ==
    Dict([ identity |->
               Dict([name |-> Str(<< " ", "Jane", " " >>), email |-> Num(5),
                     links |-> List(<< Str(<< " " >>), Str(<< "x.org" >>), None >>),
                     extra |-> Str(<< "zzz" >>)]),
           professional_summary |-> Num(3),
           skills |-> Dict([technical |->
                                List(<< Str(<< " ", "Go", " " >>), Str(<<>>), None, Num(0) >>),
                            tools |-> List(<< Str(<< "null" >>) >>),
                            soft |-> Str(<< "many" >>)]),
           experience |-> List(<< Dict([company |-> Str(<< "Acme" >>)]),
                                  Str(<< "intern" >>) >>),
           education |-> Str(<< "foo" >>),
           projects |-> List(<< Dict([name |-> Str(<< " " >>)]) >>),
           achievements |-> Str(<< "Award" >>),
           extra |-> Bool(TRUE) ])

\* Keys the schema does not have, at every level, and a career intent
RawIntent ==
    Dict([ identity |-> Dict([name |-> Str(sJane), extra |-> Str(<< "JD" >>)]),
           career_intent |->
               Dict([current_status |-> Str(<< "open" >>),
                     target_roles |-> List(<< Str(<< "SRE" >>) >>),
                     industry |-> None]),
           professional_summary |-> Str(sFullStack),
           skills |-> Dict([technical |-> SkillList(1),
                            tools |-> List(<< Str(<< "Docker" >>) >>),
                            extra |-> List(<< Str(<< "French" >>) >>)]),
           experience |-> List(<< Dict([company |-> Str(<< "Acme" >>),
                                        extra |-> Str(<< "remote" >>)]) >>),
           education |-> List(<< Dict([degree |-> Str(<< "BSc" >>),
                                       extra |-> Str(<< "A" >>)]) >>),
           projects |-> List(<< Dict([name |-> Str(<< "Tracker" >>),
                                      extra |-> Str(<< "x.org" >>)]) >>),
           extra |-> Str(<< "SRE" >>) ])

RawObjects ==
    {RawFull(n) : n \in 0..MaxItems}
    \cup {RawScenario, RawJane, RawBlank, RawNoisy, RawIntent}

\* Valid JSON that is not a non-empty object
RawOthers == {List(<< Num(1) >>), Str(<< "text" >>), Num(5), None, EmptyDict}

Fenced(tag, t) == << Fence >> \o tag \o << "\n" >> \o t \o << "\n", Fence >>

InProse(t) == << "Here", " ", "it", " ", "is", ":", "\n" >> \o t \o << "\n", "Done." >>

Truncated(t) == SubSeq(t, 1, Len(t) - 1)

\* What the model call does: raise, or return a text
Responses ==
    {ModelRaises}
    \cup {Str(Dumps(v)) : v \in RawObjects \cup RawOthers}
    \cup {Str(Fenced(<< "json" >>, Dumps(v))) : v \in {RawFull(MaxItems), RawJane}}
    \cup {Str(Fenced(<<>>, Dumps(v))) : v \in {RawFull(MaxItems), RawJane}}
    \cup {Str(InProse(Dumps(v))) : v \in {RawFull(MaxItems), RawJane, RawScenario}}
    \cup {Str(Truncated(Dumps(v))) : v \in {RawFull(MaxItems), RawJane}}
    \cup {Str(<< "not", " ", "json", " ", "at", " ", "all" >>),
          Str(<< "{", "oops", "}" >>),
          Str(<<>>)}

\* AfterModelCall, worked out once for each response of the model
ModelOutcome == [response \in Responses |-> AfterModelCall(response)]

\* The model is not called
NotCalled == [t |-> "not_called"]

\* A faulty variant of extract_cv_data_deep: the length of the text is not
\* looked at
extract_cv_data_deep_any_length(cv_text, ai_available, response) ==
    IF ~ai_available THEN _get_empty_profile_structure
    ELSE ModelOutcome[response]

\* extract_cv_data_deep(cv_text), given whether the AI is configured and what
\* the model call does
extract_cv_data_deep(cv_text, ai_available, response) ==
    IF ~ai_available THEN _get_empty_profile_structure
    ELSE IF cv_text = <<>> \/ PyLen(Strip(cv_text)) < MinCvTextLen
    THEN _get_empty_profile_structure
    ELSE ModelOutcome[response]

Form(f) == Dict(f)

\* An empty form, a summary only, a soft skill and an e-mail only, a full form
Forms ==
    { Form([professional_summary |-> Str(<<>>)]),
      Form([professional_summary |-> Str(sBackend)]),
      Form([identity_email |-> Str(<< " ", "jd@example.org" >>),
            skills_soft |-> Str(<< "Teamwork", ",", " ", "Writing", "," >>)]),
      Form([identity_name |-> Str(<< "J.", " ", "Doe" >>),
            professional_summary |-> Str(sBackend \o << "\n" >>),
            skills_technical |-> Str(<< "Python" >>),
            skills_tools |-> Str(<< "Git" >>),
            experience_count |-> Str(<< "1" >>),
            exp_0_company |-> Str(<< "Initech" >>),
            exp_0_responsibilities |-> Str(<< "Support", "\n", "Reports" >>),
            education_count |-> Str(<< "1" >>),
            edu_0_degree |-> Str(<< "BSc" >>),
            projects_count |-> Str(<< "1" >>),
            proj_0_name |-> Str(<< "Tracker" >>),
            achievements |-> Str(<< "Prize" >>),
            career_target_roles |-> Str(<< "SRE" >>)]),
      Form([experience_count |-> Str(<< "many" >>),
            professional_summary |-> Str(sBackend)]) }

(***************************************************************************)
(* app.py: table profiles (the row of the session's user)                  *)
(***************************************************************************)
JsonColumns ==
    { "identity", "career_intent", "skills_json", "experience_json",
      "education_json", "projects_json", "achievements_json" }

SectionColumns == JsonColumns \cup {"professional_summary"}

LegacyColumns == {"name", "email", "phone", "bio", "looking_for", "skills"}

CvColumns == {"cv_file_path"}

Columns == SectionColumns \cup LegacyColumns \cup CvColumns

\* A row whose columns are all NULL but those of f
Row(f) == Dict([c \in Columns |-> IF c \in DOMAIN f THEN f[c] ELSE None])

\* UPDATE profiles SET c = f[c], ... WHERE user_id = %s: no row, no change
UpdateRow(row, f) ==
    IF row = None THEN None
    ELSE Dict([c \in Columns |-> IF c \in DOMAIN f THEN f[c] ELSE row.f[c]])

(***************************************************************************)
(* app.py: _perform_cv_extraction                                          *)
(***************************************************************************)
\* The key of profile_data a section column is filled from
SectionKey(col) ==
    CASE col = "identity" -> "identity"
      [] col = "career_intent" -> "career_intent"
      [] col = "professional_summary" -> "professional_summary"
      [] col = "skills_json" -> "skills"
      [] col = "experience_json" -> "experience"
      [] col = "education_json" -> "education"
      [] col = "projects_json" -> "projects"
      [] col = "achievements_json" -> "achievements"

\* A faulty variant of SectionData: the null members of a dict section are
\* left out
SectionDataCompact(profile_data, col) ==
    LET v == Get(profile_data, SectionKey(col))
    IN  IF v.t = "obj"
        THEN Dict([k \in {m \in DOMAIN v.f : v.f[m] # None} |-> v.f[k]])
        ELSE OrElse(v, List(<<>>))

\* Lines 2516-2522: profile_data.get(key, {}) or {}  (or [] for the lists)
SectionData(profile_data, col) ==
    OrElse(Get(profile_data, SectionKey(col)),
           IF col \in {"identity", "career_intent", "skills_json"}
           THEN EmptyDict
           ELSE List(<<>>))

\* Lines 2525-2531: the JSON string stored for a section
SectionJson(profile_data, col) == Str(Dumps(SectionData(profile_data, col)))

\* len(v) raises TypeError for None and for numbers
LenRaises(v) == v.t \in {"null", "num", "bool"}

\* Lines 2499-2504, inside the try of line 2496: the debug prints take
\* len() of professional_summary and of experience
DebugPrintRaises(profile_data) ==
    /\ Truthy(profile_data)
    /\ \/ LenRaises(GetOr(profile_data, "professional_summary", Str(<<>>)))
       \/ LenRaises(GetOr(profile_data, "experience", List(<<>>)))

\* Lines 2534 and 2637-2638: slices of professional_summary and len() of
\* skills.technical and skills.tools, under the outer try
SummaryLogRaises(profile_data) ==
    LET skills_data == SectionData(profile_data, "skills_json")
    IN  \/ GetOr(profile_data, "professional_summary", Str(<<>>)).t # "str"
        \/ LenRaises(GetOr(skills_data, "technical", List(<<>>)))
        \/ LenRaises(GetOr(skills_data, "tools", List(<<>>)))

\* ", ".join(xs) for a list of strs
JoinList(xs) == Join(<< ",", " " >>, [i \in 1..Len(xs.items) |-> xs.items[i].s])

\* Lines 2726, 2731, 2857 and 2866: d.get(key) and len(d.get(key, [])) > 0
\* (a true list has a positive length)
HasItems(d, key) == Truthy(Get(d, key))

\* Lines 2857 and 2866: ", ".join(d.get(key, [])) if HasItems else ""
JoinedOrEmpty(d, key) ==
    IF HasItems(d, key) THEN Str(JoinList(Get(d, key))) ELSE Str(<<>>)

\* The value extraction derives for a column from profile_data
ExtractedValue(profile_data, col) ==
    LET identity == GetOr(profile_data, "identity", EmptyDict)
        career_intent == GetOr(profile_data, "career_intent", EmptyDict)
    IN  CASE col \in JsonColumns -> SectionJson(profile_data, col)
          [] col \in {"professional_summary", "bio"} ->
                GetOr(profile_data, "professional_summary", Str(<<>>))
          [] col \in {"name", "email", "phone"} -> GetOr(identity, col, Str(<<>>))
          [] col = "looking_for" -> JoinedOrEmpty(career_intent, "target_roles")
          [] col = "skills" ->
                JoinedOrEmpty(GetOr(profile_data, "skills", EmptyDict), "technical")

\* Lines 2664-2734: the fields of the INSERT when the user has no row
InsertsField(profile_data, col) ==
    LET identity == GetOr(profile_data, "identity", EmptyDict)
    IN  CASE col \in JsonColumns -> has_non_empty_data(profile_data, SectionKey(col))
          [] col \in {"professional_summary", "bio"} ->
                ~is_empty_text(ExtractedValue(profile_data, col))
          [] col \in {"name", "email", "phone"} ->
                has_non_empty_identity_field(identity, col)
          [] col = "looking_for" ->
                HasItems(GetOr(profile_data, "career_intent", EmptyDict), "target_roles")
          [] col = "skills" ->
                HasItems(GetOr(profile_data, "skills", EmptyDict), "technical")
          [] OTHER -> FALSE

\* A faulty variant of UpdatesField: the current value is not looked at
UpdatesFieldOverwriting(current_profile, profile_data, col) ==
    LET identity == GetOr(profile_data, "identity", EmptyDict)
        extracted == ExtractedValue(profile_data, col)
    IN  CASE col \in JsonColumns ->
                /\ has_non_empty_data(profile_data, SectionKey(col))
                /\ is_valid_extracted_value(SectionData(profile_data, col))
          [] col \in {"professional_summary", "bio", "looking_for", "skills"} ->
                /\ ~is_empty_text(extracted)
                /\ is_valid_extracted_value(extracted)
          [] col \in {"name", "email", "phone"} ->
                /\ has_non_empty_identity_field(identity, col)
                /\ is_valid_extracted_value(extracted)
          [] OTHER -> FALSE

\* A faulty variant of UpdatesField: the extracted value is not looked at
UpdatesFieldBlindly(current_profile, profile_data, col) ==
    LET current == Get(current_profile, col)
    IN  CASE col \in JsonColumns -> is_empty_json(current)
          [] col \in LegacyColumns \cup {"professional_summary"} -> is_empty_text(current)
          [] OTHER -> FALSE

\* A faulty variant of UpdatesField: the current value of a legacy column is
\* not looked at
UpdatesFieldLegacyOverwriting(current_profile, profile_data, col) ==
    LET identity == GetOr(profile_data, "identity", EmptyDict)
        current == Get(current_profile, col)
        extracted == ExtractedValue(profile_data, col)
    IN  CASE col \in JsonColumns ->
                /\ is_empty_json(current)
                /\ has_non_empty_data(profile_data, SectionKey(col))
                /\ is_valid_extracted_value(SectionData(profile_data, col))
          [] col = "professional_summary" ->
                /\ is_empty_text(current)
                /\ ~is_empty_text(extracted)
                /\ is_valid_extracted_value(extracted)
          [] col \in {"bio", "looking_for", "skills"} ->
                /\ ~is_empty_text(extracted)
                /\ is_valid_extracted_value(extracted)
          [] col \in {"name", "email", "phone"} ->
                /\ has_non_empty_identity_field(identity, col)
                /\ is_valid_extracted_value(extracted)
          [] OTHER -> FALSE

\* Lines 2753-2872: the fields of the UPDATE when the user has a row
UpdatesField(current_profile, profile_data, col) ==
    LET identity == GetOr(profile_data, "identity", EmptyDict)
        current == Get(current_profile, col)
        extracted == ExtractedValue(profile_data, col)
    IN  CASE col \in JsonColumns ->
                /\ is_empty_json(current)
                /\ has_non_empty_data(profile_data, SectionKey(col))
                /\ is_valid_extracted_value(SectionData(profile_data, col))
          [] col \in {"professional_summary", "bio", "looking_for", "skills"} ->
                /\ is_empty_text(current)
                /\ ~is_empty_text(extracted)
                /\ is_valid_extracted_value(extracted)
          [] col \in {"name", "email", "phone"} ->
                /\ is_empty_text(current)
                /\ has_non_empty_identity_field(identity, col)
                /\ is_valid_extracted_value(extracted)
          [] OTHER -> FALSE

\* What one run found and decided: the outcome, the profile_data it extracted,
\* the row it read, and the fields it writes (update_parts / insert_fields)
Decision(outcome, profile_data, current_profile, patch) ==
    [ outcome |-> outcome, profile_data |-> profile_data,
      current_profile |-> current_profile, patch |-> patch ]

NoPatch == [c \in {} |-> None]

\* Lines 2475-2512 and 2534: everything before the SELECT.  cv is the uploaded
\* file: its extension, whether its parser is installed, its text.
BeforeSelect(cv, ai_available, response) ==
    IF cv.ext \notin {".pdf", ".docx"}
    THEN Decision("unsupported_file_type", None, None, NoPatch)
    ELSE IF ~cv.parser_available
    THEN Decision("parsing_not_available", None, None, NoPatch)
    ELSE IF cv.text = <<>> \/ PyLen(Strip(cv.text)) < MinCvTextLen
    THEN Decision("insufficient_text", None, None, NoPatch)
    ELSE IF ~ai_available
    THEN Decision("ai_not_configured", None, None, NoPatch)
    ELSE Call(LAMBDA profile_data :
                 IF DebugPrintRaises(profile_data)
                 THEN Decision("error_extracting_profile_data", profile_data, None, NoPatch)
                 ELSE IF ~Truthy(profile_data)
                 THEN Decision("could_not_extract", profile_data, None, NoPatch)
                 ELSE IF GetOr(profile_data, "professional_summary", Str(<<>>)).t # "str"
                 THEN Decision("unexpected_error", profile_data, None, NoPatch)
                 ELSE Decision("extracted", profile_data, None, NoPatch),
              extract_cv_data_deep(cv.text, ai_available, response))

\* Lines 2541-2872: the SELECT has returned current_profile (None: no row);
\* decide what to write
MergeDecision(profile_data, current_profile) ==
    LET values(cols) == [c \in cols |-> ExtractedValue(profile_data, c)]
    IN  IF SummaryLogRaises(profile_data)
        THEN Decision("unexpected_error", profile_data, current_profile, NoPatch)
        ELSE IF ~Truthy(current_profile)
        THEN Call(LAMBDA inserts :
                     IF inserts # {}
                     THEN Decision("insert", profile_data, current_profile, values(inserts))
                     ELSE Decision("no_valid_data", profile_data, current_profile, NoPatch),
                  {c \in Columns : InsertsField(profile_data, c)})
        ELSE Call(LAMBDA updates :
                     IF updates # {}
                     THEN Decision("update", profile_data, current_profile, values(updates))
                     ELSE Decision("no_changes", profile_data, current_profile, NoPatch),
                  {c \in Columns : UpdatesField(current_profile, profile_data, c)})

\* A faulty variant of WriteDecision: the section columns and the legacy
\* columns go in two statements and only the first is executed
WriteDecisionPartial(row, d) ==
    CASE d.outcome = "insert" -> IF row = None THEN Row(d.patch) ELSE row
      [] d.outcome = "update" ->
            UpdateRow(row, [c \in DOMAIN d.patch \cap SectionColumns |-> d.patch[c]])
      [] OTHER -> row

\* Lines 2736-2744 and 2874-2878: execute and commit.  The INSERT of a second
\* row for the user violates the UNIQUE key and is rolled back.
WriteDecision(row, d) ==
    CASE d.outcome = "insert" -> IF row = None THEN Row(d.patch) ELSE row
      [] d.outcome = "update" -> UpdateRow(row, d.patch)
      [] OTHER -> row

\* The (success, message) pair returned, once the write is done
Returned(row, d) ==
    IF d.outcome = "insert" /\ row # None
    THEN [d EXCEPT !.outcome = "database_error"]
    ELSE d

Succeeded(d) == d.outcome \in {"insert", "update", "no_changes"}

(***************************************************************************)
(* app.py: edit_profile (POST)                                             *)
(***************************************************************************)
\* (request.form.get(k) or "").strip()
Field(form, k) == Strip(OrElse(Get(form, k), Str(<<>>)).s)

RECURSIVE Split(_, _)
\* s.split(sep), sep a single chunk
Split(s, sep) ==
    LET i == IndexOf(s, 1, {sep})
    IN  IF i = 0 THEN << s >>
        ELSE << SubSeq(s, 1, i - 1) >> \o Split(SubSeq(s, i + 1, Len(s)), sep)

\* [x.strip() for x in field.split(sep) if x.strip()]
SplitField(form, k, sep) ==
    LET parts == SelectSeq(Split(Field(form, k), sep), LAMBDA x : Strip(x) # <<>>)
    IN  List([i \in 1..Len(parts) |-> Str(Strip(parts[i]))])

\* int(request.form.get(k, "0") or "0"): -1 stands for ValueError
IntField(form, k) ==
    LET c == Strip(OrElse(GetOr(form, k, Str(<< "0" >>)), Str(<< "0" >>)).s)
    IN  IF Len(c) = 1 /\ \E n \in 0..MaxNum : ToString(n) = c[1]
        THEN CHOOSE n \in 0..MaxNum : ToString(n) = c[1]
        ELSE -1

\* any(d.values())
AnyValue(d) == \E k \in DOMAIN d.f : Truthy(d.f[k])

\* json.dumps(v) if keep else None
DumpsIf(keep, v) == IF keep THEN Str(Dumps(v)) ELSE None

\* a or b or None, for strs
FirstOf(a, b) == IF a # <<>> THEN Str(a) ELSE IF b # <<>> THEN Str(b) ELSE None

FormIdentity(form) ==
    Dict([ name |-> Str(Field(form, "identity_name")),
           email |-> Str(Field(form, "identity_email")),
           phone |-> Str(Field(form, "identity_phone")),
           location |-> Str(Field(form, "identity_location")),
           links |-> SplitField(form, "identity_links", "\n") ])

FormCareerIntent(form) ==
    Dict([ current_status |-> Str(Field(form, "career_current_status")),
           target_roles |-> SplitField(form, "career_target_roles", ","),
           industry |-> Str(Field(form, "career_industry")) ])

FormSkills(form) ==
    Dict([ technical |-> SplitField(form, "skills_technical", ","),
           tools |-> SplitField(form, "skills_tools", ","),
           soft |-> SplitField(form, "skills_soft", ",") ])

FormExperience(form, i) ==
    LET pre == "exp_" \o ToString(i) \o "_"
    IN  Dict([ company |-> Str(Field(form, pre \o "company")),
               role |-> Str(Field(form, pre \o "role")),
               duration |-> Str(Field(form, pre \o "duration")),
               responsibilities |-> SplitField(form, pre \o "responsibilities", "\n") ])

FormEducation(form, i) ==
    LET pre == "edu_" \o ToString(i) \o "_"
    IN  Dict([ degree |-> Str(Field(form, pre \o "degree")),
               institution |-> Str(Field(form, pre \o "institution")),
               year |-> Str(Field(form, pre \o "year")),
               specialization |-> Str(Field(form, pre \o "specialization")) ])

FormProject(form, i) ==
    LET pre == "proj_" \o ToString(i) \o "_"
    IN  Dict([ name |-> Str(Field(form, pre \o "name")),
               tech_stack |-> Str(Field(form, pre \o "tech_stack")),
               impact |-> Str(Field(form, pre \o "impact")) ])

\* Lines 2200-2211: the entries with a company or a role
FormExperienceList(form) ==
    List(SelectSeq([i \in 1..IntField(form, "experience_count") |->
                        FormExperience(form, i - 1)],
                   LAMBDA e : Truthy(e.f.company) \/ Truthy(e.f.role)))

\* Lines 2214-2225: the entries with a degree or an institution
FormEducationList(form) ==
    List(SelectSeq([i \in 1..IntField(form, "education_count") |->
                        FormEducation(form, i - 1)],
                   LAMBDA e : Truthy(e.f.degree) \/ Truthy(e.f.institution)))

\* Lines 2228-2238: the entries with a name
FormProjectList(form) ==
    List(SelectSeq([i \in 1..IntField(form, "projects_count") |->
                        FormProject(form, i - 1)],
                   LAMBDA e : Truthy(e.f.name)))

\* Lines 2171-2250: the fourteen values edit_profile writes
FormValues(form) ==
    LET identity == FormIdentity(form)
        career_intent == FormCareerIntent(form)
        professional_summary == Field(form, "professional_summary")
        skills == FormSkills(form)
        experience_list == FormExperienceList(form)
        education_list == FormEducationList(form)
        projects_list == FormProjectList(form)
        achievements_list == SplitField(form, "achievements", "\n")
    IN  [ identity |-> DumpsIf(AnyValue(identity), identity),
          career_intent |-> DumpsIf(AnyValue(career_intent), career_intent),
          professional_summary |-> FirstOf(professional_summary, <<>>),
          skills_json |-> DumpsIf(AnyValue(skills), skills),
          experience_json |-> DumpsIf(Truthy(experience_list), experience_list),
          education_json |-> DumpsIf(Truthy(education_list), education_list),
          projects_json |-> DumpsIf(Truthy(projects_list), projects_list),
          achievements_json |-> DumpsIf(Truthy(achievements_list), achievements_list),
          name |-> FirstOf(identity.f.name.s, Field(form, "name")),
          email |-> FirstOf(identity.f.email.s, Field(form, "email")),
          phone |-> FirstOf(identity.f.phone.s, Field(form, "phone")),
          bio |-> FirstOf(professional_summary, Field(form, "bio")),
          looking_for |->
              FirstOf(JoinList(career_intent.f.target_roles), Field(form, "looking_for")),
          skills |->
              FirstOf(JoinList(List(skills.f.technical.items \o skills.f.tools.items)),
                      Field(form, "skills")) ]

\* FormValues, worked out once for each form submitted
SubmittedValues == [form \in Forms |-> FormValues(form)]

\* int() of a count field raised: the except branch rolls back
FormRaises(form) ==
    \E k \in {"experience_count", "education_count", "projects_count"} :
        IntField(form, k) = -1

\* A faulty variant of SaveProfile: the UPDATE sets only the columns that
\* are NULL
SaveProfileFilling(row, form) ==
    IF FormRaises(form) THEN row
    ELSE IF Truthy(row)
    THEN UpdateRow(row, [c \in {k \in DOMAIN SubmittedValues[form] : row.f[k] = None} |->
                             SubmittedValues[form][c]])
    ELSE Row(SubmittedValues[form])

\* The row after the POST: UPDATE when the SELECT found a row, else INSERT
SaveProfile(row, form) ==
    IF FormRaises(form) THEN row
    ELSE IF Truthy(row) THEN UpdateRow(row, SubmittedValues[form])
    ELSE Row(SubmittedValues[form])

(***************************************************************************)
(* app.py: extract_cv_data_route (POST /cv/extract)                        *)
(***************************************************************************)
\* ", ".join(x) if x else "": joining a dict joins its keys
JoinedSkills(x) ==
    IF ~Truthy(x) THEN Str(<<>>)
    ELSE IF x.t = "obj"
    THEN Str(Join(<< ",", " " >>, [i \in 1..Len(Keys(x)) |-> << Keys(x)[i] >>]))
    ELSE Str(JoinList(x))

\* Lines 3035-3043: the parameters of the UPDATE, read from the top level of
\* what extract_cv_data_deep returned
RouteParams(extracted_data) ==
    [ name |-> GetOr(extracted_data, "name", Str(<<>>)),
      email |-> GetOr(extracted_data, "email", Str(<<>>)),
      phone |-> GetOr(extracted_data, "phone", Str(<<>>)),
      bio |-> GetOr(extracted_data, "bio", Str(<<>>)),
      looking_for |-> GetOr(extracted_data, "looking_for", Str(<<>>)),
      skills |-> JoinedSkills(Get(extracted_data, "skills")) ]

\* COALESCE(NULLIF(param, ''), current)
CoalesceNullIf(param, current) ==
    IF param = None \/ param = Str(<<>>) THEN current ELSE param

\* Lines 2969-3049: the row after the request.  Without a stored CV, a parser,
\* enough text or the model the request ends before the UPDATE.
RouteUpdate(row, cv, ai_available, response) ==
    IF ~Truthy(row) \/ ~Truthy(row.f["cv_file_path"]) THEN row
    ELSE IF cv.ext \notin {".pdf", ".docx"} \/ ~cv.parser_available THEN row
    ELSE IF cv.text = <<>> \/ PyLen(Strip(cv.text)) < MinCvTextLen THEN row
    ELSE IF ~ai_available THEN row
    ELSE Call(LAMBDA params :
                 UpdateRow(row, [c \in DOMAIN params |->
                                    CoalesceNullIf(params[c], row.f[c])]),
              Call(RouteParams, extract_cv_data_deep(cv.text, ai_available, response)))

(***************************************************************************)
(* State                                                                   *)
(***************************************************************************)
VARIABLES
    profiles,           \* the user's row of table profiles, or None
    cv_file,            \* the file under UPLOAD_FOLDER the row points to, or None
    gemini_configured,  \* is_ai_available(), fixed when the process starts
    last,               \* the request served last and what it decided
    inflight,           \* per request thread: where its _perform_cv_extraction is
    probe               \* a call of a function on its own: its argument and its result

vars == << profiles, cv_file, gemini_configured, last, inflight, probe >>

Request(op, response, decision) ==
    [op |-> op, response |-> response, decision |-> decision]

NoDecision == Decision("none", None, None, NoPatch)

\* Request threads that may run at once
MaxThreads == 2

Threads == 1..MaxThreads

\* A thread outside _perform_cv_extraction
Idle == [pc |-> "idle"]

\* A thread between the SELECT of line 2541 and the UPDATE of line 2877
Selected(response, decision) ==
    [pc |-> "selected", response |-> response, decision |-> decision]

NoProbe == [t |-> "no_call"]

Init ==
    /\ profiles = None
    /\ cv_file = None
    /\ gemini_configured \in BOOLEAN
    /\ last = Request("none", NotCalled, NoDecision)
    /\ inflight = [th \in Threads |-> Idle]
    /\ probe = NoProbe

\* _perform_cv_extraction(user_id, file_path), start to return
PerformCvExtraction(row, cv, response) ==
    Call(LAMBDA before :
            IF before.outcome = "extracted"
            THEN Call(LAMBDA profile_data : MergeDecision(profile_data, row),
                      before.profile_data)
            ELSE before,
         BeforeSelect(cv, gemini_configured, response))

\* INSERT ... ON DUPLICATE KEY UPDATE cv_file_path = ...
StoreCvReference(row, cv) ==
    LET path == [cv_file_path |-> Str(<< "cv", cv.ext >>)]
    IN  IF row = None THEN Row(path) ELSE UpdateRow(row, path)

\* POST /cv/upload: store the file and its reference, then extract when the
\* file yields enough text
UploadCv(cv, response) ==
    LET text == IF cv.ext \in {".pdf", ".docx"} /\ cv.parser_available
                THEN cv.text
                ELSE <<>>
    IN  \E stored \in {StoreCvReference(profiles, cv)} :
            /\ cv_file' = cv
            /\ IF text # <<>> /\ PyLen(Strip(text)) >= MinCvTextLen
               THEN \E d \in {PerformCvExtraction(stored, cv, response)} :
                        /\ profiles' = WriteDecision(stored, d)
                        /\ last' = Request("upload_cv", response, Returned(stored, d))
               ELSE /\ profiles' = stored
                    /\ last' = Request("upload_cv", NotCalled, NoDecision)
            /\ UNCHANGED << gemini_configured, inflight, probe >>

\* POST /about-me/extract-cv: extract from the stored file
ExtractCvFromStored(response) ==
    /\ Truthy(profiles)
    /\ Truthy(profiles.f["cv_file_path"])
    /\ \E d \in {PerformCvExtraction(profiles, cv_file, response)} :
           /\ profiles' = WriteDecision(profiles, d)
           /\ last' = Request("extract_cv_from_stored", response, Returned(profiles, d))
    /\ UNCHANGED << cv_file, gemini_configured, inflight, probe >>

\* POST /about-me/edit
EditProfile(form) ==
    /\ \E row \in {SaveProfile(profiles, form)} : profiles' = row
    /\ last' = Request("edit_profile", NotCalled, NoDecision)
    /\ UNCHANGED << cv_file, gemini_configured, inflight, probe >>

\* The model is called once the file is of a parsed type, has enough text and
\* the AI is configured; then it raises or returns a text
ModelCalls(cv) ==
    IF /\ gemini_configured
       /\ cv.ext \in {".pdf", ".docx"}
       /\ cv.parser_available
       /\ PyLen(Strip(cv.text)) >= MinCvTextLen
    THEN Responses
    ELSE {NotCalled}

\* Requests served one at a time
Next ==
    \/ \E cv \in CvFiles : \E response \in ModelCalls(cv) : UploadCv(cv, response)
    \/ /\ cv_file # None
       /\ \E response \in ModelCalls(cv_file) : ExtractCvFromStored(response)
    \/ \E form \in Forms : EditProfile(form)

Spec == Init /\ [][Next]_vars

\* POST /cv/extract
ExtractCvDataRoute(response) ==
    /\ \E row \in {RouteUpdate(profiles, cv_file, gemini_configured, response)} :
           profiles' = row
    /\ last' = Request("extract_cv_data_route", response, NoDecision)
    /\ UNCHANGED << cv_file, gemini_configured, inflight, probe >>

\* The requests of Next and those of /cv/extract, served one at a time
NextRoute ==
    \/ Next
    \/ /\ cv_file # None
       /\ \E response \in ModelCalls(cv_file) : ExtractCvDataRoute(response)

SpecRoute == Init /\ [][NextRoute]_vars

(***************************************************************************)
(* Requests served by concurrent threads: _perform_cv_extraction reads the *)
(* row, decides, and writes in a later statement; nothing locks the row    *)
(***************************************************************************)
\* What the model answers while two requests overlap
ConcResponses ==
    {Str(Dumps(v)) : v \in {RawFull(MaxItems), RawJane}}

\* What the user saves meanwhile: a summary only, or nothing but blanks
ConcForms ==
    { Form([professional_summary |-> Str(sBackend)]),
      Form([professional_summary |-> Str(<<>>)]) }

\* The user has uploaded a CV; nothing is extracted yet
InitConc ==
    /\ cv_file = CvFile(".pdf", TRUE, Text50)
    /\ profiles = StoreCvReference(None, cv_file)
    /\ gemini_configured = TRUE
    /\ last = Request("none", NotCalled, NoDecision)
    /\ inflight = [th \in Threads |-> Idle]
    /\ probe = NoProbe

\* Lines 2470-2872 in thread th: extract, SELECT the row, decide the fields
SelectCurrentProfile(th, response) ==
    /\ inflight[th] = Idle
    /\ Truthy(profiles)
    /\ Truthy(profiles.f["cv_file_path"])
    /\ \E d \in {PerformCvExtraction(profiles, cv_file, response)} :
           inflight' = [inflight EXCEPT ![th] = Selected(response, d)]
    /\ UNCHANGED << profiles, cv_file, gemini_configured, last, probe >>

\* Lines 2874-2906 in thread th: UPDATE the fields decided on, commit, return
UpdateProfile(th) ==
    /\ inflight[th].pc = "selected"
    /\ \E d \in {inflight[th].decision} :
           /\ profiles' = WriteDecision(profiles, d)
           /\ last' = Request("extract_cv_from_stored", inflight[th].response,
                              Returned(profiles, d))
    /\ inflight' = [inflight EXCEPT ![th] = Idle]
    /\ UNCHANGED << cv_file, gemini_configured, probe >>

NextConc ==
    \/ \E th \in Threads : \E response \in ConcResponses :
           SelectCurrentProfile(th, response)
    \/ \E th \in Threads : UpdateProfile(th)
    \/ \E form \in ConcForms : EditProfile(form)

SpecConc == InitConc /\ [][NextConc]_vars

(***************************************************************************)
(* Calls of is_empty_json on values of every shape                         *)
(***************************************************************************)
\* Strings, blank and not, the literals the str branch names, numbers, flags
Leaves ==
    { None, Str(<<>>), Str(<< " " >>), Str(<< " ", "\n" >>),
      Str(<< "Python" >>), Str(<< " ", "Python" >>),
      Str(<< "null" >>), Str(<< " ", "NULL", "\n" >>),
      Str(<< "{", "}" >>), Str(<< "[", "]" >>), Str(<< "{", " ", "}" >>),
      Num(0), Num(1), Bool(FALSE) }

\* Lists of at most MaxItems values
ListsOf(vals) ==
    {List(<<>>)} \cup {List(items) : items \in UNION {[1..n -> vals] : n \in 1..MaxItems}}

\* Objects with some of the keys technical and tools
DictsOf(vals) ==
    {EmptyDict}
    \cup {Dict(f) : f \in UNION {[ks -> vals] : ks \in {{"technical"}, {"technical", "tools"}}}}

\* Containers of leaves, and containers of a container
Nested ==
    LET inner == { List(<<>>), EmptyDict, List(<< None >>), List(<< Str(<< " " >>) >>),
                   List(<< Str(<< "Python" >>) >>), List(<< Str(<< "null" >>) >>),
                   Dict([technical |-> List(<<>>)]),
                   Dict([technical |-> Str(<< "Go" >>)]) }
    IN  {List(<< v >>) : v \in inner}
        \cup {List(<< None, v >>) : v \in inner}
        \cup {Dict([technical |-> v, tools |-> List(<<>>), soft |-> List(<<>>)]) : v \in inner}

ProbeValues ==
    Leaves \cup ListsOf(Leaves) \cup DictsOf(Leaves) \cup Nested
    \cup { _get_empty_profile_structure,
           Dict([technical |-> List(<<>>), tools |-> List(<<>>), soft |-> List(<<>>)]),
           Dict([technical |-> List(<< Str(<< "Python" >>) >>)]) }

InitProbe ==
    /\ profiles = None
    /\ cv_file = None
    /\ gemini_configured = FALSE
    /\ last = Request("none", NotCalled, NoDecision)
    /\ inflight = [th \in Threads |-> Idle]
    /\ probe \in {[val |-> v, called |-> FALSE, empty |-> FALSE] : v \in ProbeValues}

\* is_empty_json(val) is called and returns
IsEmptyJson ==
    /\ ~probe.called
    /\ probe' = [probe EXCEPT !.called = TRUE, !.empty = is_empty_json(probe.val)]
    /\ UNCHANGED << profiles, cv_file, gemini_configured, last, inflight >>

SpecProbe == InitProbe /\ [][IsEmptyJson]_vars

(***************************************************************************)
(* Calls of the three tests the merge makes on a value: is_empty_json,     *)
(* is_valid_extracted_value, and has_non_empty_data on a dict holding it   *)
(***************************************************************************)
InitTests ==
    /\ profiles = None
    /\ cv_file = None
    /\ gemini_configured = FALSE
    /\ last = Request("none", NotCalled, NoDecision)
    /\ inflight = [th \in Threads |-> Idle]
    /\ probe \in { [val |-> v, called |-> FALSE, empty |-> FALSE, valid |-> FALSE,
                     has_data |-> FALSE] : v \in ProbeValues }

\* The three tests are called on val and return
EmptinessTests ==
    /\ ~probe.called
    /\ probe' = [probe EXCEPT !.called = TRUE,
                              !.empty = is_empty_json(probe.val),
                              !.valid = is_valid_extracted_value(probe.val),
                              !.has_data = has_non_empty_data(Dict([skills |-> probe.val]),
                                                              "skills")]
    /\ UNCHANGED << profiles, cv_file, gemini_configured, last, inflight >>

SpecTests == InitTests /\ [][EmptinessTests]_vars

(***************************************************************************)
(* Calls of extract_cv_data_deep past its model call, on responses of      *)
(* every shape                                                             *)
(***************************************************************************)
\* Every section of a type the schema does not have
RawWrongTypes ==
    Dict([ identity |-> List(<< Str(sJane) >>),
           professional_summary |-> List(<< Str(sFullStack) >>),
           skills |-> Str(<< "Go" >>),
           experience |-> Str(<< "foo" >>),
           education |-> Num(1),
           projects |-> Dict([name |-> Str(<< "Tracker" >>)]),
           achievements |-> Num(5) ])

\* The same, with other types
RawWrongTypesToo ==
    Dict([ identity |-> Str(sJane),
           professional_summary |-> Dict([name |-> Str(sFullStack)]),
           skills |-> List(<< Str(<< "Go" >>) >>),
           experience |-> Dict([company |-> Str(<< "Acme" >>)]),
           education |-> Bool(TRUE),
           projects |-> Str(<< "Tracker" >>),
           achievements |-> Dict([name |-> Str(<< "Award" >>)]) ])

\* A summary that quotes a code block, and a name in braces
RawQuoting ==
    Dict([ identity |-> Dict([name |-> Str(sJane)]),
           professional_summary |->
               Str(<< "Wrote", " ", Fence, "go", " ", "run", Fence, " ", "daily." >>),
           experience |-> List(<<>>) ])

\* Entries of the list sections, padded, blank, of other types
RawEntries ==
    Dict([ experience |->
               List(<< Dict([company |-> Str(<< " ", "Acme", "\n" >>), role |-> Num(0),
                             duration |-> Str(<<>>),
                             responsibilities |->
                                 List(<< Str(<< " ", "Built", " ", "APIs" >>), Num(2),
                                         Str(<< " " >>), List(<<>>) >>)]),
                       None,
                       Dict([role |-> Bool(FALSE), responsibilities |-> List(<<>>)]) >>),
           education |->
               List(<< Dict([degree |-> Str(<< "BSc" >>), year |-> Num(4),
                             institution |-> Str(<< "\n" >>),
                             specialization |-> List(<< Str(<< "CS" >>) >>)]) >>),
           projects |->
               List(<< Dict([name |-> Str(<< "Tracker" >>), tech_stack |-> None,
                             impact |-> Dict([name |-> Str(<< "big" >>)])]) >>),
           achievements |-> List(<< Str(<< " ", "Award" >>), Num(1), None, Str(<< " " >>) >>) ])

\* A CV in which the model finds nothing: every section null
RawNothing ==
    Dict([ identity |-> None, professional_summary |-> None, skills |-> None,
           experience |-> None, education |-> None, projects |-> None,
           achievements |-> None ])

\* JSON values a response may spell: objects, and values that are no object
Documents ==
    RawObjects \cup RawOthers
    \cup {RawWrongTypes, RawWrongTypesToo, RawQuoting, RawEntries, RawNothing}
    \cup {List(<< RawJane >>), List(<<>>), Bool(TRUE), Bool(FALSE), Num(0), Str(<<>>)}

\* How the model dresses the document up
Wraps ==
    { "plain", "padded", "fence_json", "fence", "prose", "braces_before",
      "braces_after", "truncated" }

\* The response text for a document and a wrap
Wrap(wrap, t) ==
    CASE wrap = "plain" -> t
      [] wrap = "padded" -> << "\n", " " >> \o t \o << " ", "\n" >>
      [] wrap = "fence_json" -> Fenced(<< "json" >>, t)
      [] wrap = "fence" -> Fenced(<<>>, t)
      [] wrap = "prose" -> InProse(t)
      [] wrap = "braces_before" ->
            << "Fill", " ", "{", "name", "}", " ", "in", ":", "\n" >> \o t
      [] wrap = "braces_after" ->
            << "Result", ":", "\n" >> \o t \o << "\n", "Keys", " ", "{", "name", "}", " ", "kept." >>
      [] wrap = "truncated" -> Truncated(t)

InitNormalize ==
    /\ profiles = None
    /\ cv_file = None
    /\ gemini_configured = TRUE
    /\ last = Request("none", NotCalled, NoDecision)
    /\ inflight = [th \in Threads |-> Idle]
    /\ probe \in { [doc |-> doc, wrap |-> wrap, called |-> FALSE, profile |-> None] :
                     doc \in Documents, wrap \in Wraps }

\* Lines 162-245: the model has returned the text; extract_cv_data_deep
\* returns a Profile
Normalize ==
    /\ ~probe.called
    /\ \E profile \in {AfterModelCall(Str(Wrap(probe.wrap, Dumps(probe.doc))))} :
           probe' = [probe EXCEPT !.called = TRUE, !.profile = profile]
    /\ UNCHANGED << profiles, cv_file, gemini_configured, last, inflight >>

SpecNormalize == InitNormalize /\ [][Normalize]_vars

(***************************************************************************)
(* Calls of match_jd_cv, on responses of every shape                       *)
(***************************************************************************)
\* What the model may put for match_score
Scores ==
    {Num(n) : n \in Numerals}
    \cup { Str(<< "5" >>), Str(<< " ", "100", "\n" >>), Str(<< "101" >>),
           Str(<< "85%" >>), Str(<<>>), None, Bool(TRUE), List(<< Num(5) >>), EmptyDict }

\* The documents of a match: each score with skills as a list, as a list to
\* tidy up and as a string; a document without a score; values that are no
\* object
MatchDocuments ==
    { Dict([ match_score |-> score, matched_skills |-> skills,
             missing_skills |-> List(<< Str(<< "Rust" >>) >>),
             summary |-> Str(<< " ", "Good", " ", "fit." >>) ]) :
          score \in Scores,
          skills \in { SkillList(MaxItems), Str(<< "Go" >>),
                       List(<< Str(<< " ", "Go" >>), None, Str(<<>>) >>) } }
    \cup { Dict([matched_skills |-> SkillList(1)]), EmptyDict,
           List(<< Dict([match_score |-> Num(5)]) >>), Num(5), None, Str(<< "5" >>) }

InitMatch ==
    /\ profiles = None
    /\ cv_file = None
    /\ gemini_configured \in BOOLEAN
    /\ last = Request("none", NotCalled, NoDecision)
    /\ inflight = [th \in Threads |-> Idle]
    /\ probe \in { [doc |-> doc, wrap |-> wrap, raises |-> raises, called |-> FALSE,
                     result |-> None] :
                     doc \in MatchDocuments,
                     wrap \in {"plain", "fence_json", "prose", "truncated"},
                     raises \in BOOLEAN }

\* match_jd_cv is called and returns; the model call raises or returns the
\* document in its wrap
MatchJdCv ==
    /\ ~probe.called
    /\ \E response \in { IF probe.raises THEN ModelRaises
                          ELSE Str(Wrap(probe.wrap, Dumps(probe.doc))) } :
           \E result \in {match_jd_cv(gemini_configured, response)} :
               probe' = [probe EXCEPT !.called = TRUE, !.result = result]
    /\ UNCHANGED << profiles, cv_file, gemini_configured, last, inflight >>

SpecMatch == InitMatch /\ [][MatchJdCv]_vars

(***************************************************************************)
(* The jobs and interviews tables and the requests that write them.  The   *)
(* tables are functions from job id to row (interviews has a unique key on *)
(* job_id); probe holds the tables, the session, the request just served   *)
(* and the next auto-increment id of jobs.  A user_id is a user, or "NULL" *)
(* in a row that predates user accounts; the session is a user or "none".  *)
(* Of the columns a request writes, a jobs row keeps status and an         *)
(* interviews row keeps interview_completed; the other form fields count   *)
(* in the validation of the request only.                                  *)
(***************************************************************************)
Users == {"A", "B"}

\* Jobs ever inserted (the auto-increment ids 1..MaxJobs)
MaxJobs == 2

JobIds == 1..MaxJobs

\* A predicate on the job id alone
WhereId(table, job_id, user_id) == job_id \in DOMAIN table

\* The SQL predicate id=%s AND user_id=%s on a table keyed by job id
WhereOwned(table, job_id, user_id) ==
    /\ job_id \in DOMAIN table
    /\ table[job_id].user_id = user_id

validate_job_ownership(jobs, job_id, user_id) == WhereOwned(jobs, job_id, user_id)

\* Both UPDATEs of claim_orphaned_records in their one transaction
claim_orphaned_records(db, user_id) ==
    LET jobs == [j \in DOMAIN db.jobs |->
                    IF db.jobs[j].user_id = "NULL"
                    THEN [db.jobs[j] EXCEPT !.user_id = user_id] ELSE db.jobs[j]]
        interviews == [j \in DOMAIN db.interviews |->
                    IF /\ db.interviews[j].user_id = "NULL"
                       /\ j \in DOMAIN jobs
                       /\ jobs[j].user_id = user_id
                    THEN [db.interviews[j] EXCEPT !.user_id = user_id]
                    ELSE db.interviews[j]]
    IN  [db EXCEPT !.jobs = jobs, !.interviews = interviews]

\* The tables before any request: empty, or the rows of an installation that
\* predates user accounts (no user to own them at start-up)
InitJobs ==
    /\ profiles = None
    /\ cv_file = None
    /\ gemini_configured = FALSE
    /\ last = Request("none", NotCalled, NoDecision)
    /\ inflight = [th \in Threads |-> Idle]
    /\ probe \in { [session |-> "none", jobs |-> << >>, interviews |-> << >>,
                    next_id |-> 1, req |-> [op |-> "none", job_id |-> 0]],
                   [session |-> "none",
                    jobs |-> << [user_id |-> "NULL", status |-> "Interview"] >>,
                    interviews |-> << [user_id |-> "NULL", completed |-> 1] >>,
                    next_id |-> 2, req |-> [op |-> "none", job_id |-> 0]] }

\* A served request: the tables after it, and the request recorded
Served(op, job_id, db) ==
    /\ probe' = [db EXCEPT !.req = [op |-> op, job_id |-> job_id]]
    /\ UNCHANGED << profiles, cv_file, gemini_configured, last, inflight >>

Login(user) ==
    \E db_error \in BOOLEAN :
        Served("login", 0,
               IF db_error THEN [probe EXCEPT !.session = user]
               ELSE claim_orphaned_records([probe EXCEPT !.session = user], user))

Logout == Served("logout", 0, [probe EXCEPT !.session = "none"])

AddJobSubmit(company, status) ==
    \E db_error \in BOOLEAN :
        LET job_id == probe.next_id
        IN  /\ job_id \in JobIds
            /\ Served("add_job_submit", job_id,
                  IF \/ probe.session = "none"
                     \/ company = ""
                     \/ status \notin {"Applied", "Interview", "Rejected", "Offer"}
                     \/ db_error
                  THEN probe
                  ELSE [probe EXCEPT !.next_id = job_id + 1,
                          !.jobs = [j \in DOMAIN probe.jobs \cup {job_id} |->
                            IF j = job_id
                            THEN [user_id |-> probe.session, status |-> status]
                            ELSE probe.jobs[j]]])

EditJobSubmit(job_id, company, status) ==
    \E db_error \in BOOLEAN :
        Served("edit_job_submit", job_id,
           IF \/ probe.session = "none"
              \/ ~validate_job_ownership(probe.jobs, job_id, probe.session)
              \/ company = ""
              \/ status \notin {"Applied", "Interview", "Rejected", "Offer"}
              \/ db_error
           THEN probe
           ELSE [probe EXCEPT !.jobs = [j \in DOMAIN probe.jobs |->
                    IF j = job_id /\ WhereOwned(probe.jobs, j, probe.session)
                    THEN [probe.jobs[j] EXCEPT !.status = status]
                    ELSE probe.jobs[j]]])

\* The DELETE, with the cascade of the foreign key of interviews.job_id
DeleteJob(job_id) ==
    \E db_error \in BOOLEAN :
        Served("delete_job", job_id,
           IF \/ probe.session = "none"
              \/ ~validate_job_ownership(probe.jobs, job_id, probe.session)
              \/ ~WhereOwned(probe.jobs, job_id, probe.session)
              \/ db_error
           THEN probe
           ELSE [probe EXCEPT
                    !.jobs = [j \in DOMAIN probe.jobs \ {job_id} |-> probe.jobs[j]],
                    !.interviews = [j \in DOMAIN probe.interviews \ {job_id} |->
                                        probe.interviews[j]]])

\* The POST of confirm_interview.  rowcount of the UPDATE of jobs counts the
\* rows changed or the rows matched, as the connection is set up
\* (changed_only): a job already in status Interview then ends the request.
ConfirmInterview(job_id, interview_date) ==
    \E db_error \in BOOLEAN, changed_only \in BOOLEAN :
        Served("confirm_interview", job_id,
           IF \/ probe.session = "none"
              \/ ~validate_job_ownership(probe.jobs, job_id, probe.session)
              \/ interview_date = ""
              \/ ~WhereOwned(probe.jobs, job_id, probe.session)
              \/ changed_only /\ probe.jobs[job_id].status = "Interview"
              \/ db_error
           THEN probe
           ELSE [probe EXCEPT
                    !.jobs[job_id].status = "Interview",
                    !.interviews = [j \in DOMAIN probe.interviews \cup {job_id} |->
                        IF j # job_id THEN probe.interviews[j]
                        ELSE IF j \in DOMAIN probe.interviews
                        THEN [probe.interviews[j] EXCEPT !.completed = 0]
                        ELSE [user_id |-> probe.session, completed |-> 0]]])

\* The POST of complete_interview
CompleteInterview(job_id, difficulty) ==
    \E db_error \in BOOLEAN :
        Served("complete_interview", job_id,
           IF \/ probe.session = "none"
              \/ ~validate_job_ownership(probe.jobs, job_id, probe.session)
              \/ difficulty \notin {"", "Easy", "Medium", "Hard"}
              \/ ~WhereOwned(probe.interviews, job_id, probe.session)
              \/ db_error
           THEN probe
           ELSE [probe EXCEPT !.interviews[job_id].completed = 1])

NextJobs ==
    \/ \E user \in Users : Login(user)
    \/ Logout
    \/ \E company \in {"Acme", ""}, status \in {"Applied", "Pending"} :
           AddJobSubmit(company, status)
    \/ \E job_id \in JobIds, company \in {"Globex", ""},
          status \in {"Offer", "Pending"} :
           EditJobSubmit(job_id, company, status)
    \/ \E job_id \in JobIds : DeleteJob(job_id)
    \/ \E job_id \in JobIds, interview_date \in {"d1", ""} :
           ConfirmInterview(job_id, interview_date)
    \/ \E job_id \in JobIds, difficulty \in {"Easy", "Impossible"} :
           CompleteInterview(job_id, difficulty)

SpecJobs == InitJobs /\ [][NextJobs]_vars

(***************************************************************************)
(* Properties                                                              *)
(***************************************************************************)
RECURSIVE IsEmpty(_)
\* The recursive emptiness rule: null, a blank string, an empty list or
\* object, or a list or object whose members are all empty
IsEmpty(v) ==
    CASE v.t = "null" -> TRUE
      [] v.t = "str" -> Strip(v.s) = <<>>
      [] v.t = "list" -> \A i \in 1..Len(v.items) : IsEmpty(v.items[i])
      [] v.t = "obj" -> \A k \in DOMAIN v.f : IsEmpty(v.f[k])
      [] OTHER -> FALSE

\* The value a column holds: the document of a JSON column, the text of
\* professional_summary (row None: the user has no row)
ColumnValue(text, col) ==
    IF text = None THEN None
    ELSE IF col \in JsonColumns THEN Loads(text.s).v
    ELSE text

\* Section col of a stored profile
Existing(row, col) == IF row = None THEN None ELSE ColumnValue(row.f[col], col)

\* Section col of an extracted Profile
Extracted(profile_data, col) == Get(profile_data, SectionKey(col))

ExtractionOps == {"upload_cv", "extract_cv_from_stored"}

\* The last request ran _perform_cv_extraction up to a Profile from the normalizer
Normalized == last.op \in ExtractionOps /\ last.response # NotCalled

\* The last request reached the merge decision on a row it had read
Merged == Normalized /\ last.decision.outcome \in {"update", "no_changes"}

\* Neither the strict parse nor the recovery parse yields a value, or the
\* model call raised
ParseFails(response) ==
    \/ response = ModelRaises
    \/ ~ParseResponse(StripFence(Strip(response.s))).ok

\* C1, of one decision: a section that is non-empty in the row read is not in
\* the patch, or the patch repeats it
NonDestructivePatch ==
    LET d == last.decision
    IN  Normalized =>
            \A col \in SectionColumns :
                ~IsEmpty(Existing(d.current_profile, col)) =>
                    \/ col \notin DOMAIN d.patch
                    \/ d.patch[col] = d.current_profile.f[col]

\* C1, of one step: a section changes at a request other than a manual save
\* only if it was empty
NonDestructiveStep ==
    \A col \in SectionColumns :
        ( /\ profiles # None
          /\ profiles'.f[col] # profiles.f[col]
          /\ last'.op # "edit_profile" ) => IsEmpty(Existing(profiles, col))

\* C1: the CV-extraction merge never changes a section that is non-empty in
\* the existing profile: such a section is not in the patch or the patch
\* repeats it, and across any sequence of extractions and manual saves a
\* non-empty stored section changes only at a manual save.
C1_NonDestructive == []NonDestructivePatch /\ [][NonDestructiveStep]_vars

\* C1 happens: the row read has a non-empty section for which the CV has data
\* too, and the section is left out of the patch
C1_Witness ==
    /\ Merged
    /\ \E col \in SectionColumns :
           /\ ~IsEmpty(Existing(last.decision.current_profile, col))
           /\ ~IsEmpty(Extracted(last.decision.profile_data, col))
           /\ col \notin DOMAIN last.decision.patch

\* One step of an extraction fills every section that is empty in the stored
\* profile and non-empty in the extracted Profile
FillStep ==
    ( /\ last'.op \in ExtractionOps
      /\ last'.response # NotCalled ) =>
        \A col \in SectionColumns :
            ( /\ IsEmpty(Existing(profiles, col))
              /\ ~IsEmpty(Extracted(last'.decision.profile_data, col)) ) =>
                /\ col \in DOMAIN last'.decision.patch
                /\ ColumnValue(last'.decision.patch[col], col)
                       = Extracted(last'.decision.profile_data, col)

\* C2: for every section that is empty in the existing profile and non-empty
\* in the extracted Profile, the patch written by _perform_cv_extraction
\* contains the section with the extracted value.
C2_Fill == [][FillStep]_vars

\* C3: for every existing profile and every Profile the normalizer produces,
\* _perform_cv_extraction reaches the per-field merge decision and returns a
\* patch result, never an internal-exception outcome.
C3_Total ==
    Normalized =>
        last.decision.outcome \in {"update", "no_changes", "insert", "no_valid_data"}

\* The scenario: skills null and the summary of sBackend stored; skills with
\* Go and Postgres and the summary of sFullStack extracted, all else null
ScenarioStep ==
    ( /\ last'.op \in ExtractionOps
      /\ last'.decision.profile_data = _normalize_profile_structure(RawScenario)
      /\ Existing(profiles, "skills_json") = None
      /\ Existing(profiles, "professional_summary") = Str(sBackend) ) =>
        /\ DOMAIN last'.decision.patch \cap SectionColumns = {"skills_json"}
        /\ Existing(profiles', "skills_json")
               = Dict([technical |-> SkillList(2), tools |-> None, soft |-> None])
        /\ Existing(profiles', "professional_summary") = Str(sBackend)

\* C4: in the end-to-end scenario the patch applied is exactly the skills
\* section, written whole, and professional_summary is not written.
C4_Scenario == [][ScenarioStep]_vars

\* A thread's UPDATE writes no section that is non-empty in the row at that
\* moment, unless it repeats the value
SerializedStep ==
    \A th \in Threads :
        (inflight[th].pc = "selected" /\ inflight'[th] = Idle) =>
            \A col \in DOMAIN inflight[th].decision.patch \cap SectionColumns :
                \/ IsEmpty(Existing(profiles, col))
                \/ inflight[th].decision.patch[col] = profiles.f[col]

\* C5: under every interleaving of two operations on one user's profile a CV
\* extraction never writes a section that is non-empty in the stored profile
\* at the moment of its write (no lost update from a stale snapshot).
C5_Serialized == [][SerializedStep]_vars

\* C6: a section that is empty both in the existing profile and in the
\* extracted Profile is not in the patch.
C6_Null ==
    LET d == last.decision
    IN  Normalized =>
            \A col \in SectionColumns :
                ( /\ IsEmpty(Existing(d.current_profile, col))
                  /\ IsEmpty(Extracted(d.profile_data, col)) ) =>
                    col \notin DOMAIN d.patch

\* C6 happens: the patch fills some section and leaves out one that the CV
\* holds only blanks for and that is empty in the row read
C6_Witness ==
    /\ Merged
    /\ last.decision.outcome = "update"
    /\ \E col \in SectionColumns :
           /\ Extracted(last.decision.profile_data, col) # None
           /\ IsEmpty(Extracted(last.decision.profile_data, col))
           /\ IsEmpty(Existing(last.decision.current_profile, col))
           /\ col \notin DOMAIN last.decision.patch

\* C7: a section is merged as a whole.  After an extraction a section of the
\* patch was empty in the row read and now holds the entire extracted
\* section; any other section holds what the row read held.
C7_AtomicSections ==
    LET d == last.decision
    IN  Merged =>
            \A col \in SectionColumns :
                IF col \in DOMAIN d.patch
                THEN /\ IsEmpty(Existing(d.current_profile, col))
                     /\ Existing(profiles, col) = Extracted(d.profile_data, col)
                ELSE profiles.f[col] = d.current_profile.f[col]

\* C7 happens: identity or skills is non-empty in the row read and so is left
\* out of the patch, although the CV has data for one of its sub-fields that
\* is empty in the row
C7_Witness ==
    /\ Merged
    /\ last.decision.outcome = "update"
    /\ \E col \in {"identity", "skills_json"} :
           LET old == Existing(last.decision.current_profile, col)
               new == Extracted(last.decision.profile_data, col)
           IN  /\ ~IsEmpty(old)
               /\ col \notin DOMAIN last.decision.patch
               /\ \E k \in DOMAIN old.f \cap DOMAIN new.f :
                      IsEmpty(old.f[k]) /\ ~IsEmpty(new.f[k])

\* C8 as stated: is_empty_json is true exactly for the values that are empty
\* under the recursive emptiness rule.
C8_RecursiveEmptiness == probe.called => (probe.empty <=> IsEmpty(probe.val))

RECURSIVE IsEmptyOrLiteral(_)
\* The recursive emptiness rule with the strings that spell an empty JSON
\* document counted as empty
IsEmptyOrLiteral(v) ==
    CASE v.t = "null" -> TRUE
      [] v.t = "str" ->
            \/ Strip(v.s) = <<>>
            \/ Lower(Strip(v.s)) \in {<< "null" >>, << "{", "}" >>, << "[", "]" >>}
      [] v.t = "list" -> \A i \in 1..Len(v.items) : IsEmptyOrLiteral(v.items[i])
      [] v.t = "obj" -> \A k \in DOMAIN v.f : IsEmptyOrLiteral(v.f[k])
      [] OTHER -> FALSE

\* C8, amended: is_empty_json is true exactly for null, a string that after
\* trimming is empty or is null (in any case), {} or [], an empty list, an
\* empty object, and a list or object whose members are all empty under this
\* rule.
C8_EmptinessWithLiterals ==
    probe.called => (probe.empty <=> IsEmptyOrLiteral(probe.val))

\* C8 happens: is_empty_json has returned true for a padded NULL
C8_Witness ==
    /\ probe.called
    /\ probe.val = Str(<< " ", "NULL", "\n" >>)
    /\ probe.empty

\* C9: extract_cv_data_deep returns a Profile for every response of the model,
\* and the all-null Profile of _get_empty_profile_structure whenever the call
\* raised or neither parse yields a value.
C9_NeverRaises ==
    Normalized =>
        /\ last.decision.profile_data.t = "obj"
        /\ ParseFails(last.response) =>
               last.decision.profile_data = _get_empty_profile_structure

\* C9 happens: the model has answered in prose
C9_Witness ==
    /\ Normalized
    /\ last.response = Str(<< "not", " ", "json", " ", "at", " ", "all" >>)
    /\ last.decision.profile_data = _get_empty_profile_structure

\* C10: for a response that parses, normalizing the JSON serialization of the
\* normalizer's output returns that same output.
C10_Idempotent ==
    (Normalized /\ ~ParseFails(last.response)) =>
        AfterModelCall(Str(Dumps(last.decision.profile_data)))
            = last.decision.profile_data

\* The value of a legacy column as the extracted sections give it: name, email
\* and phone from identity, bio from professional_summary, skills from
\* skills.technical joined by ", ", looking_for from career_intent.target_roles
LegacyDerived(profile_data, col) ==
    LET joined(section, key) ==
            LET xs == Get(Get(profile_data, section), key)
            IN  IF xs.t = "list" THEN Str(JoinList(xs)) ELSE None
    IN  CASE col \in {"name", "email", "phone"} -> Get(Get(profile_data, "identity"), col)
          [] col = "bio" -> Get(profile_data, "professional_summary")
          [] col = "skills" -> joined("skills", "technical")
          [] col = "looking_for" -> joined("career_intent", "target_roles")

\* C11, of one decision: a legacy column of the patch was empty in the row
\* read and receives the non-empty value derived from the sections
LegacyPatch ==
    LET d == last.decision
    IN  Normalized =>
            \A col \in LegacyColumns \cap DOMAIN d.patch :
                /\ IsEmpty(Get(d.current_profile, col))
                /\ ~IsEmpty(LegacyDerived(d.profile_data, col))
                /\ d.patch[col] = LegacyDerived(d.profile_data, col)

\* C11, of one step: a legacy column changes at a request other than a manual
\* save only if it was empty
LegacyStep ==
    \A col \in LegacyColumns :
        ( /\ profiles # None
          /\ profiles'.f[col] # profiles.f[col]
          /\ last'.op # "edit_profile" ) => IsEmpty(profiles.f[col])

\* C11: each of name, email, phone, bio, looking_for and skills is written by
\* _perform_cv_extraction only if its stored value is empty and the value
\* derived from the extracted sections is non-empty; the value written is that
\* derived value, and a non-empty stored legacy field is never overwritten.
C11_LegacyFields == []LegacyPatch /\ [][LegacyStep]_vars

\* C11 happens: an extraction fills the empty name from identity while the
\* stored bio, for which the CV has a summary, is left as it is
C11_Witness ==
    /\ Merged
    /\ "name" \in DOMAIN last.decision.patch
    /\ "bio" \notin DOMAIN last.decision.patch
    /\ ~IsEmpty(Get(last.decision.current_profile, "bio"))
    /\ ~IsEmpty(LegacyDerived(last.decision.profile_data, "bio"))
    /\ profiles.f["name"] = LegacyDerived(last.decision.profile_data, "name")

\* The value of column col in a row (None: the user has no row)
Stored(row, col) == IF row = None THEN None ELSE row.f[col]

\* C12, of one step of an extraction: a request that succeeds leaves every
\* column of its patch written and no other section or legacy column changed;
\* a request that fails leaves all of them as they were
AtomicStep ==
    last'.op \in ExtractionOps =>
        LET d == last'.decision
        IN  \A col \in SectionColumns \cup LegacyColumns :
                Stored(profiles', col) =
                    IF Succeeded(d) /\ col \in DOMAIN d.patch
                    THEN d.patch[col]
                    ELSE Stored(profiles, col)

\* C12: _perform_cv_extraction applies its patch whole or not at all: after a
\* successful run every field selected for filling is written and nothing
\* else is changed, and after a run that ends in an error every section and
\* legacy field of the stored profile is unchanged.
C12_AtomicUpdate == [][AtomicStep]_vars

\* C12 happens: one UPDATE has written a section column and a legacy column
C12_Witness ==
    /\ Merged
    /\ last.decision.outcome = "update"
    /\ \E col \in SectionColumns : \E leg \in LegacyColumns :
           /\ {col, leg} \subseteq DOMAIN last.decision.patch
           /\ profiles.f[col] = last.decision.patch[col]
           /\ profiles.f[leg] = last.decision.patch[leg]

\* The response of the call under way, and what its parse yields
NormText == Wrap(probe.wrap, Dumps(probe.doc))

ParsedInput(text) == ParseResponse(StripFence(Strip(text)))

\* The call has returned and _normalize_profile_structure was applied: the
\* response parsed to a non-empty object
NormalizedObject ==
    /\ probe.called
    /\ ParsedInput(NormText).ok
    /\ ParsedInput(NormText).v.t = "obj"
    /\ Truthy(ParsedInput(NormText).v)

\* Field f of section k of the parsed object, None when the section is no
\* object
SubField(data, k, f) ==
    IF Get(data, k).t = "obj" THEN Get(Get(data, k), f) ELSE None

\* The scalar coercion rule: a string that is non-empty after trimming is
\* kept, trimmed; everything else is null
ScalarKept(x) ==
    IF x.t = "str" /\ Strip(x.s) # <<>> THEN Str(Strip(x.s)) ELSE None

\* The list coercion rule: of an actual list the strings that are non-empty
\* after trimming are kept, trimmed; a list with none of them, and everything
\* that is no list, is null
ListKept(x) ==
    IF x.t # "list" THEN None
    ELSE LET kept == SelectSeq(x.items, LAMBDA e : e.t = "str" /\ Strip(e.s) # <<>>)
         IN  IF kept = <<>> THEN None
             ELSE List([i \in 1..Len(kept) |-> Str(Strip(kept[i].s))])

\* The scalar fields of an entry of a list section
EntryScalars(k) ==
    CASE k = "experience" -> {"company", "role", "duration"}
      [] k = "education" -> {"degree", "institution", "year", "specialization"}
      [] k = "projects" -> {"name", "tech_stack", "impact"}

\* The entries of section k of the parsed object that are objects
ObjectEntries(data, k) ==
    IF Get(data, k).t = "list"
    THEN SelectSeq(Get(data, k).items, LAMBDA e : e.t = "obj")
    ELSE <<>>

\* Every scalar field of Profile out follows the scalar rule on object data
ScalarCoercion(data, out) ==
    /\ \A f \in {"name", "email", "phone", "location"} :
           out.f.identity.f[f] = ScalarKept(SubField(data, "identity", f))
    /\ out.f.professional_summary = ScalarKept(Get(data, "professional_summary"))
    /\ \A k \in {"experience", "education", "projects"} :
           out.f[k].t = "list" =>
               /\ Len(out.f[k].items) = Len(ObjectEntries(data, k))
               /\ \A i \in 1..Len(out.f[k].items) : \A f \in EntryScalars(k) :
                      out.f[k].items[i].f[f] = ScalarKept(Get(ObjectEntries(data, k)[i], f))

\* C13: every scalar field of a Profile returned by _normalize_profile_structure
\* is the input value trimmed when that is a string non-empty after trimming,
\* and null otherwise: never an empty string, never a stringified non-string.
C13_ScalarCoercion ==
    NormalizedObject => ScalarCoercion(ParsedInput(NormText).v, probe.profile)

\* Every list-of-string field of Profile out follows the list rule on data
ListCoercion(data, out) ==
    /\ out.f.identity.f.links = ListKept(SubField(data, "identity", "links"))
    /\ \A f \in {"technical", "tools", "soft"} :
           out.f.skills.f[f] = ListKept(SubField(data, "skills", f))
    /\ out.f.achievements = ListKept(Get(data, "achievements"))
    /\ out.f.experience.t = "list" =>
           \A i \in 1..Len(out.f.experience.items) :
               i <= Len(ObjectEntries(data, "experience")) =>
                   out.f.experience.items[i].f.responsibilities
                       = ListKept(Get(ObjectEntries(data, "experience")[i], "responsibilities"))

\* C14: every list-of-string field of a Profile returned by
\* _normalize_profile_structure is null or a non-empty list of trimmed
\* non-empty strings: the non-string and the empty elements of the input list
\* are dropped, and a list left empty is null.
C14_ListCoercion ==
    NormalizedObject => ListCoercion(ParsedInput(NormText).v, probe.profile)

\* The seven top-level sections of a Profile
Sections ==
    { "identity", "professional_summary", "skills", "experience", "education",
      "projects", "achievements" }

\* A section with no data at all: null, or an object whose fields are all null
AllNull(v) == v = None \/ (v.t = "obj" /\ \A k \in DOMAIN v.f : v.f[k] = None)

SchemaType(k) ==
    CASE k \in {"identity", "skills"} -> "obj"
      [] k = "professional_summary" -> "str"
      [] OTHER -> "list"

\* The object without key k
Without(data, k) == Dict([j \in DOMAIN data.f \ {k} |-> data.f[j]])

\* C16: a section present with a value of another type than the schema's is
\* normalized to what the section is when its key is absent.
C16_WrongTypeAsAbsent ==
    NormalizedObject =>
        LET data == ParsedInput(NormText).v
        IN  \A k \in Sections \cap DOMAIN data.f :
                data.f[k].t # SchemaType(k) =>
                    probe.profile.f[k] = _normalize_profile_structure(Without(data, k)).f[k]

\* C17: for every JSON object text j, the response that puts j in a fenced
\* code block, with or without the json tag, yields the Profile that j itself
\* yields.
C17_FenceStripping ==
    (probe.called /\ probe.wrap \in {"fence_json", "fence"} /\ probe.doc.t = "obj") =>
        probe.profile = AfterModelCall(Str(Dumps(probe.doc)))

RECURSIVE BraceDepth(_)
\* How deep the braces of the JSON text of v nest
BraceDepth(v) ==
    LET deepest(ds) == IF ds = {} THEN 0 ELSE CHOOSE d \in ds : \A e \in ds : e <= d
    IN  CASE v.t = "obj" -> 1 + deepest({BraceDepth(v.f[k]) : k \in DOMAIN v.f})
          [] v.t = "list" -> deepest({BraceDepth(v.items[i]) : i \in 1..Len(v.items)})
          [] OTHER -> 0

\* C18: for a response of prose, which may hold smaller brace groups of its
\* own, around one JSON object with at most one level of nested braces, the
\* recovery parse finds the object: the Profile is the one the object itself
\* yields.
C18_RecoveryParse ==
    ( /\ probe.called
      /\ probe.wrap \in {"prose", "braces_before", "braces_after"}
      /\ probe.doc.t = "obj"
      /\ BraceDepth(probe.doc) <= 2 ) =>
        probe.profile = AfterModelCall(Str(Dumps(probe.doc)))

\* The text is too short to extract from
TooShort(cv_text) == PyLen(Strip(cv_text)) < 50

\* The last request was an extraction on a CV that is too short, or without a
\* configured model
ShortCircuited ==
    /\ last.op \in ExtractionOps
    /\ cv_file # None
    /\ TooShort(cv_file.text) \/ ~gemini_configured

\* C19, of one request: whatever the model would answer, extract_cv_data_deep
\* returns the all-null Profile; the model is not called and the request
\* reports no success and no patch
ShortCircuitReturn ==
    ShortCircuited =>
        /\ \A response \in Responses :
               extract_cv_data_deep(cv_file.text, gemini_configured, response)
                   = _get_empty_profile_structure
        /\ last.response = NotCalled
        /\ ~Succeeded(last.decision)
        /\ last.decision.patch = NoPatch

\* C19, of one step: such a request changes no section and no legacy field
ShortCircuitStep ==
    ( /\ last'.op \in ExtractionOps
      /\ TooShort(cv_file'.text) \/ ~gemini_configured ) =>
        \A col \in SectionColumns \cup LegacyColumns :
            Stored(profiles', col) = Stored(profiles, col)

\* C19: for a CV text of fewer than 50 characters after trimming, and whenever
\* the model is not configured, extract_cv_data_deep returns the all-null
\* Profile without calling the model, and the extraction request fails
\* without writing to the stored profile.
C19_ShortCircuit == []ShortCircuitReturn /\ [][ShortCircuitStep]_vars

\* C19 happens: an extraction from the stored CV of two characters, with the
\* model configured and a profile saved before, has ended as insufficient text
C19_Witness ==
    /\ last.op = "extract_cv_from_stored"
    /\ gemini_configured
    /\ cv_file.text = << "hi" >>
    /\ last.decision.outcome = "insufficient_text"
    /\ profiles.f["professional_summary"] = Str(sBackend)

\* C20: when the response parses as JSON to a value that is no object (a
\* list, a string, a number, a boolean or null), extract_cv_data_deep returns
\* the all-null Profile, as it does for a response that does not parse.
C20_ShapeMismatch ==
    ( /\ probe.called
      /\ ParsedInput(NormText).ok
      /\ ParsedInput(NormText).v.t # "obj" ) =>
        /\ probe.profile = _get_empty_profile_structure
        /\ \A k \in Sections : AllNull(probe.profile.f[k])

\* C20 happens: a list holding an object has parsed and the all-null Profile
\* has been returned
C20_Witness ==
    /\ probe.called
    /\ probe.wrap = "plain"
    /\ probe.doc = List(<< RawJane >>)
    /\ ParsedInput(NormText).v = probe.doc
    /\ probe.profile = _get_empty_profile_structure

\* The outcome of the call under way: the response did not parse, parsed to
\* something that is no non-empty object, or parsed to a non-empty object
NormOutcome ==
    IF ~ParsedInput(NormText).ok THEN "ParseFailure"
    ELSE IF ParsedInput(NormText).v.t # "obj" \/ ~Truthy(ParsedInput(NormText).v)
    THEN "ShapeMismatch"
    ELSE "Ok"

\* What extract_cv_data_deep returns from each of its failure exits (lines
\* 63, 66, 204 and 245)
FailureReturns == {_get_empty_profile_structure}

\* C21: the value extract_cv_data_deep returns tells a run that parsed to an
\* object (outcome Ok, possibly with an all-null Profile) from a run that
\* short-circuited, failed to parse or met a wrong shape: no successful run
\* returns a value that a failed run returns.
C21_OutcomeCode ==
    (probe.called /\ NormOutcome = "Ok") => probe.profile \notin FailureReturns

\* The keys of an entry of list section k
EntryKeys(k) ==
    EntryScalars(k) \cup (IF k = "experience" THEN {"responsibilities"} ELSE {})

\* C22: the Profile returned by _normalize_profile_structure has exactly the
\* seven top-level keys; identity, when an object, has exactly name, email,
\* phone, location and links; skills exactly technical, tools and soft; each
\* entry of experience, education and projects exactly the keys of its
\* schema.  No other key of the input appears at any level.
C22_FixedSchema ==
    NormalizedObject =>
        /\ DOMAIN probe.profile.f = Sections
        /\ probe.profile.f.identity.t = "obj" =>
               DOMAIN probe.profile.f.identity.f
                   = {"name", "email", "phone", "location", "links"}
        /\ probe.profile.f.skills.t = "obj" =>
               DOMAIN probe.profile.f.skills.f = {"technical", "tools", "soft"}
        /\ \A k \in {"experience", "education", "projects"} :
               probe.profile.f[k].t = "list" =>
                   \A i \in 1..Len(probe.profile.f[k].items) :
                       /\ probe.profile.f[k].items[i].t = "obj"
                       /\ DOMAIN probe.profile.f[k].items[i].f = EntryKeys(k)

\* C22 happens: an object with a key of no schema at the top, in identity, in
\* skills and in an entry of each list section has been normalized
C22_Witness ==
    /\ NormalizedObject
    /\ probe.wrap = "plain"
    /\ ParsedInput(NormText).v = RawIntent
    /\ "extra" \in DOMAIN ParsedInput(NormText).v.f
    /\ \A k \in {"identity", "skills"} : "extra" \in DOMAIN ParsedInput(NormText).v.f[k].f
    /\ \A k \in {"experience", "education", "projects"} :
           "extra" \in DOMAIN ParsedInput(NormText).v.f[k].items[1].f
    /\ probe.profile.f.identity.f.name = Str(sJane)
    /\ Len(probe.profile.f.projects.items) = 1

\* C23: when experience, education or projects of the input is a list, the
\* normalized section is a list with one rebuilt object for each element of
\* the input that is an object, in the order of the input; elements that are
\* no objects are dropped, and an element whose fields all come out null is
\* kept as an object of nulls.
C23_ListOfObjects ==
    NormalizedObject =>
        \A k \in {"experience", "education", "projects"} :
            Get(ParsedInput(NormText).v, k).t = "list" =>
                /\ probe.profile.f[k].t = "list"
                /\ Len(probe.profile.f[k].items)
                       = Len(ObjectEntries(ParsedInput(NormText).v, k))
                /\ \A i \in 1..Len(ObjectEntries(ParsedInput(NormText).v, k)) :
                       /\ probe.profile.f[k].items[i].t = "obj"
                       /\ \A f \in EntryScalars(k) :
                              probe.profile.f[k].items[i].f[f]
                                  = ScalarField(Get(ObjectEntries(ParsedInput(NormText).v, k)[i], f))

\* C23 happens: of three experience elements, an object, a null and a second
\* object, the two objects have come out in their order
C23_Witness ==
    /\ NormalizedObject
    /\ probe.doc = RawEntries
    /\ Len(ParsedInput(NormText).v.f.experience.items) = 3
    /\ ParsedInput(NormText).v.f.experience.items[2] = None
    /\ Len(probe.profile.f.experience.items) = 2
    /\ probe.profile.f.experience.items[1].f.company = Str(<< "Acme" >>)
    /\ probe.profile.f.experience.items[2].f.company = None

\* C24, of one step: a POST of edit_profile that does not fail stores, in
\* each section and each legacy column, the value built from the form
ManualSaveStep ==
    \A form \in Forms :
        (EditProfile(form) /\ ~FormRaises(form)) =>
            \A col \in SectionColumns \cup LegacyColumns :
                /\ profiles'.f[col] = SubmittedValues[form][col]
                /\ profiles'.f[col] = Row(SubmittedValues[form]).f[col]
                /\ (form = Form([professional_summary |-> Str(<<>>)])) =>
                       profiles'.f[col] = None

\* C24: after a successful POST of edit_profile each of the eight sections
\* and the six legacy fields of the stored row is the value built from the
\* submitted form, NULL when the form leaves the section empty, whatever was
\* stored before, values filled by CV extraction included.
C24_ManualSaveReplaces == [][ManualSaveStep]_vars

\* C24 happens: with a CV stored and its model configured, a save of the empty
\* form has left every section and legacy field NULL
C24_Witness ==
    /\ last.op = "edit_profile"
    /\ gemini_configured
    /\ cv_file = CvFile(".pdf", TRUE, Text50)
    /\ profiles.f["cv_file_path"] # None
    /\ \A col \in SectionColumns \cup LegacyColumns : profiles.f[col] = None

\* C25, of one step: a request of /cv/extract leaves every legacy column that
\* was non-empty as it was
RouteStep ==
    last'.op = "extract_cv_data_route" =>
        \A col \in LegacyColumns :
            ~IsEmpty(Stored(profiles, col)) =>
                Stored(profiles', col) = Stored(profiles, col)

\* C25: the route /cv/extract follows the non-destructive policy for the
\* legacy fields: whatever profile is stored and whatever extract_cv_data_deep
\* returns, its UPDATE leaves unchanged every legacy column that was
\* non-empty before the request.
C25_RouteNonDestructive == [][RouteStep]_vars

\* C26: the validity test of the merge is the exact negation of its emptiness
\* test: for every JSON value v, is_valid_extracted_value(v) is the negation
\* of is_empty_json(v), and for every profile p and key k,
\* has_non_empty_data(p, k) is the negation of is_empty_json(p[k]).
C26_ValidityNegatesEmptiness ==
    probe.called =>
        /\ probe.valid = ~probe.empty
        /\ probe.has_data = ~probe.empty

\* C27, of one step: an extraction that follows a successful extraction of
\* the same Profile decides on no change, writes no column and succeeds
RepeatStep ==
    ( /\ last.op \in ExtractionOps
      /\ Succeeded(last.decision)
      /\ last'.op \in ExtractionOps
      /\ last'.decision.profile_data = last.decision.profile_data ) =>
        /\ last'.decision.outcome = "no_changes"
        /\ last'.decision.patch = NoPatch
        /\ Succeeded(last'.decision)
        /\ \A col \in SectionColumns \cup LegacyColumns :
               Stored(profiles', col) = Stored(profiles, col)

\* C27: when _perform_cv_extraction has succeeded with an extracted Profile
\* and runs again with the same Profile and no manual save in between, the
\* second run computes an empty patch, issues no UPDATE, leaves every stored
\* field unchanged and returns success with the message of no changes.
C27_RepeatIsNoOp == [][RepeatStep]_vars

\* C27 happens: a run has ended with no changes on a row that already holds
\* the identity, the skills and the name of the Profile it extracted
C27_Witness ==
    /\ last.op = "extract_cv_from_stored"
    /\ last.decision.outcome = "no_changes"
    /\ last.decision.profile_data = ModelOutcome[Str(Dumps(RawFull(MaxItems)))]
    /\ \A col \in {"identity", "skills_json", "name", "skills"} :
           /\ profiles.f[col] = ExtractedValue(last.decision.profile_data, col)
           /\ last.decision.current_profile.f[col] = profiles.f[col]

\* C28, of one request: the Profile extracted has no career_intent section
\* and the patch holds neither career_intent nor looking_for
NoIntentPatch ==
    Normalized =>
        /\ "career_intent" \notin DOMAIN last.decision.profile_data.f
        /\ DOMAIN last.decision.patch \cap {"career_intent", "looking_for"} = {}

\* C28, of one step: an extraction request leaves both columns as they were
NoIntentStep ==
    last'.op \in ExtractionOps =>
        \A col \in {"career_intent", "looking_for"} :
            Stored(profiles', col) = Stored(profiles, col)

\* C28: CV extraction never writes career_intent or looking_for: the
\* normalizer emits no career_intent section, so for every stored profile
\* and every model response _perform_cv_extraction leaves the column
\* career_intent and the legacy column looking_for unchanged and puts
\* neither in an INSERT.
C28_NeverWritesIntent == []NoIntentPatch /\ [][NoIntentStep]_vars

\* C28 happens: the model has answered with a career intent naming a target
\* role, the run has filled other columns of a row whose career_intent and
\* looking_for are empty, and both are empty still
C28_Witness ==
    /\ Normalized
    /\ last.response = Str(Dumps(RawIntent))
    /\ Truthy(Get(Get(RawIntent, "career_intent"), "target_roles"))
    /\ last.decision.outcome = "update"
    /\ "identity" \in DOMAIN last.decision.patch
    /\ profiles.f["career_intent"] = None
    /\ profiles.f["looking_for"] = None

\* int() of the score raises: a null, a list, an object, or a string that is
\* no integer
NotConvertible(score) ==
    \/ score.t \in {"null", "list", "obj"}
    \/ score.t = "str" /\ \A n \in Numerals : Strip(score.s) # << ToString(n) >>

\* C29: match_jd_cv never raises and always returns an integer match_score
\* in 0..100: a score of the model below 0 comes back as 0, one above 100 as
\* 100, any other as it is; without the AI, when the model call fails, when
\* the response cannot be parsed and when the score is not convertible to
\* an integer the result has match_score 0 and empty lists of matched and
\* missing skills.  (A response cut short cannot be parsed when it is an
\* object without an object inside.)
C29_MatchScore ==
    probe.called =>
        LET given == IF probe.doc.t = "obj" THEN Get(probe.doc, "match_score") ELSE None
            served == gemini_configured /\ ~probe.raises /\ probe.wrap # "truncated"
                      /\ probe.doc.t = "obj"
            unparseable == probe.wrap = "truncated" /\ probe.doc.t = "obj"
                           /\ BraceDepth(probe.doc) = 1
        IN  /\ probe.result.t = "obj"
            /\ probe.result.f.match_score.t = "num"
            /\ probe.result.f.match_score.n \in 0..100
            /\ (served /\ given.t = "num") =>
                   probe.result.f.match_score.n =
                       IF given.n < 0 THEN 0 ELSE IF given.n > 100 THEN 100 ELSE given.n
            /\ ( \/ ~gemini_configured
                 \/ probe.raises
                 \/ unparseable
                 \/ probe.doc.t = "obj" /\ "match_score" \in DOMAIN probe.doc.f
                       /\ NotConvertible(given) ) =>
                   /\ probe.result.f.match_score = Num(0)
                   /\ probe.result.f.matched_skills = List(<<>>)
                   /\ probe.result.f.missing_skills = List(<<>>)

\* C29 happens: the model has given the score 101 in a fenced document and
\* the result has the score 100 and the tidied skills
C29_Witness ==
    /\ probe.called
    /\ gemini_configured
    /\ ~probe.raises
    /\ probe.wrap = "fence_json"
    /\ probe.doc.t = "obj"
    /\ Get(probe.doc, "match_score") = Num(101)
    /\ probe.result.f.match_score = Num(100)
    /\ probe.result.f.matched_skills = List(<< Str(<< "Go" >>) >>)
    /\ probe.result.f.missing_skills = List(<< Str(<< "Rust" >>) >>)

\* The rows of a table that belong to a user other than the session's
OthersRows(table, session) ==
    { j \in DOMAIN table : table[j].user_id \in Users \ {session} }

\* A request of the four on the jobs tables: rows of another user stay as
\* they are, nothing changes without a session user, and nothing changes when
\* the job asked for is not the session user's
OwnershipStep ==
    probe'.req.op \in {"edit_job_submit", "delete_job", "confirm_interview",
                       "complete_interview"} =>
        /\ \A j \in OthersRows(probe.jobs, probe.session) :
               j \in DOMAIN probe'.jobs /\ probe'.jobs[j] = probe.jobs[j]
        /\ \A j \in OthersRows(probe.interviews, probe.session) :
               j \in DOMAIN probe'.interviews
                   /\ probe'.interviews[j] = probe.interviews[j]
        /\ ( \/ probe.session = "none"
             \/ probe'.req.job_id \notin DOMAIN probe.jobs
             \/ probe.jobs[probe'.req.job_id].user_id # probe.session ) =>
               /\ probe'.jobs = probe.jobs
               /\ probe'.interviews = probe.interviews
               /\ probe'.session = probe.session

\* C30: under a session of user A, edit, delete, confirm-interview and
\* complete-interview requests neither modify nor delete a jobs or interviews
\* row of another user B; a request without a session user changes no row; a
\* request for another user's job leaves the state unchanged
C30_OwnershipIsolation == [][OwnershipStep]_vars

\* C30 happens: user A has just been refused the deletion of job 1, which is
\* B's and has a confirmed interview, while A's own job 2 exists
C30_Witness ==
    /\ probe.req = [op |-> "delete_job", job_id |-> 1]
    /\ probe.session = "A"
    /\ DOMAIN probe.jobs = {1, 2}
    /\ probe.jobs[1].user_id = "B"
    /\ probe.jobs[2].user_id = "A"
    /\ 1 \in DOMAIN probe.interviews
    /\ probe.interviews[1].user_id = "B"

====
